---- MODULE Spec2Model ----
(***************************************************************************)
(* Browser-login credential pipeline of brings-cli                         *)
(* (internal/cli browser_auth: BrowserLoginWithIntercept and helpers,      *)
(* decodeJWT).                                                             *)
(*                                                                         *)
(* Strings are modelled as sequences of atoms (an atom is a run of         *)
(* characters that no operation of the program looks inside, or a          *)
(* separator such as "." or ":"); the empty string is <<>>.               *)
(***************************************************************************)
EXTENDS Integers, Sequences, FiniteSets, TLC

\* ------------------------------------------------------------------ bounds

\* Number of HTTP responses the page observes during one login attempt.
MaxResponses == 2

\* ----------------------------------------------------------------- strings

Empty == <<>>

Nil == "nil"

\* strings.Split(s, sep) for a one-atom separator: always at least one part.
RECURSIVE Split(_, _)
Split(s, sep) ==
    IF \A i \in 1..Len(s) : s[i] # sep
    THEN <<s>>
    ELSE LET i == CHOOSE k \in 1..Len(s) :
                      s[k] = sep /\ \A j \in 1..(k - 1) : s[j] # sep
         IN  <<SubSeq(s, 1, i - 1)>> \o Split(SubSeq(s, i + 1, Len(s)), sep)

\* strings.Contains(s, sub) for a one-atom substring.
Contains(s, sub) == \E i \in 1..Len(s) : s[i] = sub

\* obj[key], or the zero value when the key is absent.
Field(obj, key) == IF key \in DOMAIN obj THEN obj[key] ELSE Empty

\* --------------------------------------------------------------- decodeJWT

\* JSON texts of the claims objects used by the tokens below, parsed:
\* a JSON value is [t |-> "s", v |-> string] or [t |-> "n", v |-> number].
Str(s) == [t |-> "s", v |-> s]
Num(n) == [t |-> "n", v |-> n]

SubFull == <<"A", ":", "B", ":", "C", ":", "id-123">>
SubColon == <<"A", ":", "B", ":", "C", ":">>
SubShort == <<"id-9">>

\* json.Unmarshal(payload, &raw) with raw a map[string]interface{}.
JSONUnmarshalClaims(bytes) ==
    CASE bytes = "{\"sub\":\"A:B:C:id-123\",\"exp\":1700}"
            -> [err |-> Nil, raw |-> [sub |-> Str(SubFull), exp |-> Num(1700)]]
      [] bytes = "{\"sub\":\"A:B:C:\"}"
            -> [err |-> Nil, raw |-> [sub |-> Str(SubColon)]]
      [] bytes = "{\"sub\":\"id-9\"}"
            -> [err |-> Nil, raw |-> [sub |-> Str(SubShort)]]
      [] bytes = "{\"exp\":1700}"
            -> [err |-> Nil, raw |-> [exp |-> Num(1700)]]
      [] bytes = "{\"sub\":\"\"}"
            -> [err |-> Nil, raw |-> [sub |-> Str(Empty)]]
      [] bytes = "{\"sub\":42}"
            -> [err |-> Nil, raw |-> [sub |-> Num(42)]]
      [] bytes = "{\"sub\":\"A:B:C:id-123\",\"email\":\"a@x\",\"exp\":16100}"
            -> [err |-> Nil,
                raw |-> [sub |-> Str(SubFull), email |-> Str(<<"a@x">>),
                         exp |-> Num(16100)]]
      [] bytes = "{\"sub\":\"A:B:C:id-123\",\"exp\":0}"
            -> [err |-> Nil, raw |-> [sub |-> Str(SubFull), exp |-> Num(0)]]
      [] bytes = "{\"sub\":\"A:B:C:id-123\",\"exp\":-1}"
            -> [err |-> Nil, raw |-> [sub |-> Str(SubFull), exp |-> Num(-1)]]
      [] bytes = "{\"sub\":\"A:B:C:id-123\",\"exp\":8900}"
            -> [err |-> Nil, raw |-> [sub |-> Str(SubFull), exp |-> Num(8900)]]
      [] bytes = "{\"sub\":\"A:B:C:id-123\",\"exp\":\"1700\"}"
            -> [err |-> Nil,
                raw |-> [sub |-> Str(SubFull), exp |-> Str(<<"1700">>)]]
      [] bytes = "{\"sub\":\"A:B:C:id-123\",\"exp\":\"soon\"}"
            -> [err |-> Nil,
                raw |-> [sub |-> Str(SubFull), exp |-> Str(<<"soon">>)]]
      [] OTHER -> [err |-> "invalid character", raw |-> [none |-> Empty]]

\* base64.RawURLEncoding.DecodeString(part).
Base64Decode(part) ==
    CASE part = <<"eyJzdWIiOiJBOkI6QzppZC0xMjMiLCJleHAiOjE3MDB9">>
            -> [err |-> Nil, bytes |-> "{\"sub\":\"A:B:C:id-123\",\"exp\":1700}"]
      [] part = <<"eyJzdWIiOiJBOkI6QzoifQ">>
            -> [err |-> Nil, bytes |-> "{\"sub\":\"A:B:C:\"}"]
      [] part = <<"eyJzdWIiOiJpZC05In0">>
            -> [err |-> Nil, bytes |-> "{\"sub\":\"id-9\"}"]
      [] part = <<"eyJleHAiOjE3MDB9">>
            -> [err |-> Nil, bytes |-> "{\"exp\":1700}"]
      [] part = <<"eyJzdWIiOiIifQ">>
            -> [err |-> Nil, bytes |-> "{\"sub\":\"\"}"]
      [] part = <<"eyJzdWIiOjQyfQ">>
            -> [err |-> Nil, bytes |-> "{\"sub\":42}"]
      [] part = <<"eyJzdWIiOiJBOkI6QzppZC0xMjMiLCJlbWFpbCI6ImFAeCIsImV4cCI6MTYxMDB9">>
            -> [err |-> Nil,
                bytes |-> "{\"sub\":\"A:B:C:id-123\",\"email\":\"a@x\",\"exp\":16100}"]
      [] part = <<"eyJzdWIiOiJBOkI6QzppZC0xMjMiLCJleHAiOjB9">>
            -> [err |-> Nil, bytes |-> "{\"sub\":\"A:B:C:id-123\",\"exp\":0}"]
      [] part = <<"eyJzdWIiOiJBOkI6QzppZC0xMjMiLCJleHAiOi0xfQ">>
            -> [err |-> Nil, bytes |-> "{\"sub\":\"A:B:C:id-123\",\"exp\":-1}"]
      [] part = <<"eyJzdWIiOiJBOkI6QzppZC0xMjMiLCJleHAiOjg5MDB9">>
            -> [err |-> Nil, bytes |-> "{\"sub\":\"A:B:C:id-123\",\"exp\":8900}"]
      [] part = <<"eyJzdWIiOiJBOkI6QzppZC0xMjMiLCJleHAiOiIxNzAwIn0">>
            -> [err |-> Nil,
                bytes |-> "{\"sub\":\"A:B:C:id-123\",\"exp\":\"1700\"}"]
      [] part = <<"eyJzdWIiOiJBOkI6QzppZC0xMjMiLCJleHAiOiJzb29uIn0">>
            -> [err |-> Nil,
                bytes |-> "{\"sub\":\"A:B:C:id-123\",\"exp\":\"soon\"}"]
      [] part = <<"WzFd">>
            -> [err |-> Nil, bytes |-> "[1]"]
      [] part = <<"bm90IGpzb24">>
            -> [err |-> Nil, bytes |-> "not json"]
      [] part = Empty
            -> [err |-> Nil, bytes |-> ""]
      [] OTHER -> [err |-> "illegal base64 data", bytes |-> ""]

\* raw[key].(string): the string and whether the assertion succeeded.
AsString(raw, key) ==
    IF key \in DOMAIN raw /\ raw[key].t = "s"
    THEN [ok |-> TRUE, v |-> raw[key].v]
    ELSE [ok |-> FALSE, v |-> Empty]

\* strconv.ParseFloat(s, 64) for the strings of the model.
ParseFloat(s) ==
    IF s = <<"1700">> THEN [err |-> Nil, f |-> 1700]
    ELSE [err |-> "invalid syntax", f |-> 0]

\* int64(toFloat(value)) for the JSON values of the model: a number, a string
\* that parses as a number, or 0.
toFloat(value) ==
    IF value.t = "n" THEN value.v
    ELSE IF value.t = "s" /\ value.v # Empty /\ ParseFloat(value.v).err = Nil
    THEN ParseFloat(value.v).f
    ELSE 0

ZeroClaims == [Sub |-> Empty, Email |-> Empty, Exp |-> 0]

\* A variant that accepts any token of three or more parts.
decodeJWTAtLeastThree(token) ==
    LET parts == Split(token, ".") IN
    IF Len(parts) < 3
    THEN [claims |-> ZeroClaims, err |-> "invalid token format"]
    ELSE LET dec == Base64Decode(parts[2])
             un == JSONUnmarshalClaims(dec.bytes) IN
         IF dec.err # Nil \/ un.err # Nil
         THEN [claims |-> ZeroClaims, err |-> "invalid token"]
         ELSE [claims |->
                 [Sub   |-> AsString(un.raw, "sub").v,
                  Email |-> AsString(un.raw, "email").v,
                  Exp   |-> IF "exp" \in DOMAIN un.raw
                            THEN toFloat(un.raw["exp"]) ELSE 0],
               err |-> Nil]

decodeJWT(token) ==
    LET parts == Split(token, ".") IN
    IF Len(parts) # 3
    THEN [claims |-> ZeroClaims, err |-> "invalid token format"]
    ELSE LET dec == Base64Decode(parts[2]) IN
         IF dec.err # Nil
         THEN [claims |-> ZeroClaims, err |-> dec.err]
         ELSE LET un == JSONUnmarshalClaims(dec.bytes) IN
              IF un.err # Nil
              THEN [claims |-> ZeroClaims, err |-> un.err]
              ELSE [claims |->
                      [Sub   |-> AsString(un.raw, "sub").v,
                       Email |-> AsString(un.raw, "email").v,
                       Exp   |-> IF "exp" \in DOMAIN un.raw
                                 THEN toFloat(un.raw["exp"]) ELSE 0],
                    err |-> Nil]

\* Tokens: header "." claims "." signature.
Hdr == "eyJhbGciOiJub25lIn0"

TokFull == <<Hdr, ".", "eyJzdWIiOiJBOkI6QzppZC0xMjMiLCJleHAiOjE3MDB9", ".", "sig">>
TokColon == <<Hdr, ".", "eyJzdWIiOiJBOkI6QzoifQ", ".", "sig">>
TokShort == <<Hdr, ".", "eyJzdWIiOiJpZC05In0", ".", "sig">>
TokNoSub == <<Hdr, ".", "eyJleHAiOjE3MDB9", ".", "sig">>
TokEmptySub == <<Hdr, ".", "eyJzdWIiOiIifQ", ".", "sig">>
TokNumSub == <<Hdr, ".", "eyJzdWIiOjQyfQ", ".", "sig">>
TokNotJSON == <<Hdr, ".", "bm90IGpzb24", ".", "sig">>
TokBad64 == <<Hdr, ".", "!!", ".", "sig">>
TokOpaque == <<"opaque-token">>
TokTwoParts == <<Hdr, ".", "eyJzdWIiOiJpZC05In0">>
TokFourParts == <<Hdr, ".", "eyJzdWIiOiJpZC05In0", ".", "sig", ".", "x">>

\* ------------------------------------------------------ finalizeAuthResult

ZeroResult ==
    [AccessToken |-> Empty, UserUUID |-> Empty, PublicUserUUID |-> Empty,
     UserName |-> Empty, Email |-> Empty]

ErrExtract == "failed to extract authentication data"

\* A variant that takes the first segment of the subject as the user id.
finalizeAuthResultFirstSegment(result) ==
    IF result.AccessToken = Empty
    THEN [result |-> ZeroResult, err |-> ErrExtract]
    ELSE IF result.UserUUID # Empty
    THEN [result |-> result, err |-> Nil]
    ELSE LET d == decodeJWT(result.AccessToken) IN
         IF d.err # Nil \/ d.claims.Sub = Empty
         THEN [result |-> ZeroResult, err |-> ErrExtract]
         ELSE LET parts == Split(d.claims.Sub, ":") IN
              [result |-> [result EXCEPT !.UserUUID = parts[1]],
               err |-> Nil]

\* A variant that accepts only a subject of exactly four segments.
finalizeAuthResultFourSegments(result) ==
    IF result.AccessToken = Empty
    THEN [result |-> ZeroResult, err |-> ErrExtract]
    ELSE IF result.UserUUID # Empty
    THEN [result |-> result, err |-> Nil]
    ELSE LET d == decodeJWT(result.AccessToken) IN
         IF d.err # Nil \/ Len(Split(d.claims.Sub, ":")) # 4
         THEN [result |-> ZeroResult, err |-> ErrExtract]
         ELSE LET parts == Split(d.claims.Sub, ":") IN
              [result |-> [result EXCEPT !.UserUUID = parts[Len(parts)]],
               err |-> Nil]

\* A variant with one error per cause.
finalizeAuthResultTyped(result) ==
    IF result.AccessToken = Empty
    THEN [result |-> ZeroResult, err |-> "missing access token"]
    ELSE IF result.UserUUID # Empty
    THEN [result |-> result, err |-> Nil]
    ELSE LET d == decodeJWT(result.AccessToken) IN
         IF d.err # Nil \/ d.claims.Sub = Empty
         THEN [result |-> ZeroResult, err |-> "missing user id"]
         ELSE LET parts == Split(d.claims.Sub, ":") IN
              [result |-> [result EXCEPT !.UserUUID = parts[Len(parts)]],
               err |-> Nil]

\* A variant that hands back what was gathered so far together with the error.
finalizeAuthResultPartial(result) ==
    IF result.AccessToken = Empty
    THEN [result |-> result, err |-> ErrExtract]
    ELSE IF result.UserUUID # Empty
    THEN [result |-> result, err |-> Nil]
    ELSE LET d == decodeJWT(result.AccessToken) IN
         IF d.err # Nil \/ d.claims.Sub = Empty
         THEN [result |-> result, err |-> ErrExtract]
         ELSE LET parts == Split(d.claims.Sub, ":") IN
              [result |-> [result EXCEPT !.UserUUID = parts[Len(parts)]],
               err |-> Nil]

finalizeAuthResult(result) ==
    IF result.AccessToken = Empty
    THEN [result |-> ZeroResult, err |-> ErrExtract]
    ELSE IF result.UserUUID # Empty
    THEN [result |-> result, err |-> Nil]
    ELSE LET d == decodeJWT(result.AccessToken) IN
         IF d.err # Nil \/ d.claims.Sub = Empty
         THEN [result |-> ZeroResult, err |-> ErrExtract]
         ELSE LET parts == Split(d.claims.Sub, ":") IN
              [result |-> [result EXCEPT !.UserUUID = parts[Len(parts)]],
               err |-> Nil]

\* ------------------------------------------ in-page scripts (JavaScript)

\* JavaScript values: strings, numbers, objects and undefined/null.
Obj(o) == [t |-> "o", v |-> o]
Undef == [t |-> "u", v |-> Empty]

Truthy(x) ==
    \/ x.t = "s" /\ x.v # Empty
    \/ x.t = "n" /\ x.v # 0
    \/ x.t = "o"

\* A variant of || that prefers its right operand.
JsOrSecond(a, b) == IF Truthy(b) THEN b ELSE a

\* a || b and a && b.
JsOr(a, b) == IF Truthy(a) THEN a ELSE b
JsAnd(a, b) == IF Truthy(a) THEN b ELSE a

\* obj.key: undefined when obj is no object or has no such property.
Prop(obj, key) ==
    IF obj.t = "o" /\ key \in DOMAIN obj.v THEN obj.v[key] ELSE Undef

\* storage.getItem(key) on one scope (a sequence of <<key, value>>): null
\* when the key is absent.
getItem(scope, key) ==
    IF \E i \in 1..Len(scope) : scope[i][1] = key
    THEN Str(scope[CHOOSE i \in 1..Len(scope) : scope[i][1] = key][2])
    ELSE Undef

\* JSON.parse(value) for the storage values of the model; ok = FALSE when it
\* throws.
JSONParse(value) ==
    CASE value = <<"{\"auth\":{\"access_token\":\"abc\"}}">>
            -> [ok |-> TRUE,
                val |-> Obj([auth |-> Obj([access_token |-> Str(<<"abc">>)])])]
      [] value = <<"{\"user\":{\"uuid\":\"u-2\",\"name\":\"Ann\",\"email\":\"a@x\"}}">>
            -> [ok |-> TRUE,
                val |-> Obj([user |-> Obj([uuid |-> Str(<<"u-2">>),
                                          name |-> Str(<<"Ann">>),
                                          email |-> Str(<<"a@x">>)])])]
      [] value = <<"{\"token\":123}">>
            -> [ok |-> TRUE, val |-> Obj([token |-> Num(123)])]
      [] value = <<"{\"accessToken\":\"t-2\",\"userUuid\":\"u-3\",\"publicUuid\":\"p-3\"}">>
            -> [ok |-> TRUE,
                val |-> Obj([accessToken |-> Str(<<"t-2">>),
                             userUuid |-> Str(<<"u-3">>),
                             publicUuid |-> Str(<<"p-3">>)])]
      [] value = <<"{\"email\":\"late@x\",\"name\":\"Late\"}">>
            -> [ok |-> TRUE,
                val |-> Obj([email |-> Str(<<"late@x">>),
                             name |-> Str(<<"Late">>)])]
      [] value = <<"{\"token\":\"t-low\",\"access_token\":\"t-high\",\"uuid\":\"u-low\",\"user_uuid\":\"u-high\",\"userName\":\"N-low\",\"name\":\"N-high\",\"user\":{\"email\":\"u@x\"},\"email\":\"e@x\"}">>
            -> [ok |-> TRUE,
                val |-> Obj([token |-> Str(<<"t-low">>),
                             access_token |-> Str(<<"t-high">>),
                             uuid |-> Str(<<"u-low">>),
                             user_uuid |-> Str(<<"u-high">>),
                             userName |-> Str(<<"N-low">>),
                             name |-> Str(<<"N-high">>),
                             user |-> Obj([email |-> Str(<<"u@x">>)]),
                             email |-> Str(<<"e@x">>)])]
      [] value = <<"{\"auth\":{\"access_token\":\"\",\"accessToken\":\"t-nested\"},\"uuid\":\"\",\"user\":{\"userUuid\":\"u-nested\",\"userName\":\"N-nested\",\"email\":\"n@x\"},\"publicUserUuid\":\"p-8\"}">>
            -> [ok |-> TRUE,
                val |-> Obj([auth |-> Obj([access_token |-> Str(Empty),
                                          accessToken |-> Str(<<"t-nested">>)]),
                             uuid |-> Str(Empty),
                             user |-> Obj([userUuid |-> Str(<<"u-nested">>),
                                          userName |-> Str(<<"N-nested">>),
                                          email |-> Str(<<"n@x">>)]),
                             publicUserUuid |-> Str(<<"p-8">>)])]
      [] value = <<"42">>
            -> [ok |-> TRUE, val |-> Num(42)]
      [] OTHER -> [ok |-> FALSE, val |-> Undef]

\* The character classes of jwtRegex over atoms: an atom of base64url
\* characters, one that begins with "eyJ", and a single character.
B64Atoms ==
    {Hdr, "sig", "eyJzdWIiOiJBOkI6QzppZC0xMjMiLCJleHAiOjE3MDB9",
     "eyJzdWIiOiJBOkI6QzoifQ", "eyJzdWIiOiJpZC05In0", "eyJleHAiOjE3MDB9",
     "eyJzdWIiOiIifQ", "eyJzdWIiOjQyfQ", "bm90IGpzb24", "opaque-token",
     "id-123", "id-9", "abc", "x", "A", "B", "C"}
EyJAtoms ==
    {Hdr, "eyJzdWIiOiJBOkI6QzppZC0xMjMiLCJleHAiOjE3MDB9",
     "eyJzdWIiOiJBOkI6QzoifQ", "eyJzdWIiOiJpZC05In0", "eyJleHAiOjE3MDB9",
     "eyJzdWIiOiIifQ", "eyJzdWIiOjQyfQ"}
CharAtoms == {".", ":", "\\", "!", "@"}

\* value.match(jwtRegex): the script is a Go raw string, so the pattern the
\* page compiles is eyJ[A-Za-z0-9_-]+\\.[A-Za-z0-9_-]+\\.[A-Za-z0-9_-]+ :
\* each "\\" is a literal backslash and each "." any one character.
JwtMatchAt(value, i) ==
    /\ i + 6 <= Len(value)
    /\ value[i] \in EyJAtoms
    /\ value[i + 1] = "\\"
    /\ value[i + 2] \in CharAtoms
    /\ value[i + 3] \in B64Atoms
    /\ value[i + 4] = "\\"
    /\ value[i + 5] \in CharAtoms
    /\ value[i + 6] \in B64Atoms

JwtMatch(value) ==
    IF \E i \in 1..Len(value) : JwtMatchAt(value, i)
    THEN LET i == CHOOSE k \in 1..Len(value) :
                      JwtMatchAt(value, k) /\ \A j \in 1..(k - 1) : ~JwtMatchAt(value, j)
         IN  Str(SubSeq(value, i, i + 6))
    ELSE Undef

ScanEmpty ==
    [accessToken |-> Undef, userUuid |-> Undef, publicUserUuid |-> Undef,
     userName |-> Undef, email |-> Undef]

\* trySet(obj) of the scan script: the updated result and the returned value.
trySet(result, obj) ==
    IF obj.t # "o"
    THEN [result |-> result, ret |-> FALSE]
    ELSE LET auth == Prop(obj, "auth")
             user == Prop(obj, "user")
             accessToken ==
                 JsOr(JsOr(JsOr(Prop(obj, "access_token"), Prop(obj, "accessToken")),
                           Prop(obj, "token")),
                      JsAnd(auth, JsOr(Prop(auth, "access_token"),
                                       Prop(auth, "accessToken"))))
             userUuid ==
                 JsOr(JsOr(JsOr(Prop(obj, "userUuid"), Prop(obj, "user_uuid")),
                           Prop(obj, "uuid")),
                      JsAnd(user, JsOr(Prop(user, "uuid"), Prop(user, "userUuid"))))
             publicUserUuid ==
                 JsOr(JsOr(Prop(obj, "publicUuid"), Prop(obj, "public_user_uuid")),
                      Prop(obj, "publicUserUuid"))
             userName ==
                 JsOr(JsOr(Prop(obj, "name"), Prop(obj, "userName")),
                      JsAnd(user, JsOr(Prop(user, "name"), Prop(user, "userName"))))
             email == JsOr(Prop(obj, "email"), JsAnd(user, Prop(user, "email")))
             Set(old, new) == IF Truthy(new) /\ ~Truthy(old) THEN new ELSE old
             r == [accessToken    |-> Set(result.accessToken, accessToken),
                   userUuid       |-> Set(result.userUuid, userUuid),
                   publicUserUuid |-> Set(result.publicUserUuid, publicUserUuid),
                   userName       |-> Set(result.userName, userName),
                   email          |-> Set(result.email, email)]
         IN  [result |-> r, ret |-> Truthy(r.accessToken) \/ Truthy(r.userUuid)]

\* The two nested loops of the scan script over the entries of localStorage
\* followed by those of sessionStorage.
RECURSIVE ScanLoop(_, _)
ScanLoop(entries, result) ==
    IF entries = <<>>
    THEN result
    ELSE LET value == Head(entries)[2]
             rest == Tail(entries)
         IN  IF value = Empty
             THEN ScanLoop(rest, result)
             ELSE LET jwt == JwtMatch(value)
                      r1 == IF ~Truthy(result.accessToken) /\ Truthy(jwt)
                            THEN [result EXCEPT !.accessToken = jwt]
                            ELSE result
                      parsed == JSONParse(value)
                  IN  IF ~parsed.ok
                      THEN ScanLoop(rest, r1)
                      ELSE LET ts == trySet(r1, parsed.val) IN
                           IF /\ ts.ret
                              /\ Truthy(ts.result.accessToken)
                              /\ Truthy(ts.result.userUuid)
                           THEN ts.result
                           ELSE ScanLoop(rest, ts.result)

FallbackScript(storage) == ScanLoop(storage.local \o storage.session, ScanEmpty)

\* The phase-1 script: getItem on localStorage || getItem on sessionStorage
\* for each canonical key.
CanonicalScript(storage) ==
    [k \in {"accessToken", "userUuid", "publicUserUuid", "userName", "email"} |->
        JsOr(getItem(storage.local, k), getItem(storage.session, k))]

\* json.Unmarshal of JSON.stringify(obj) into a map[string]string followed by
\* data[key]: undefined properties are left out and null leaves the zero
\* value; a number or an object makes Unmarshal fail.
UnmarshalFails(obj) == \E k \in DOMAIN obj : obj[k].t \in {"n", "o"}
Data(obj, key) == IF obj[key].t = "s" THEN obj[key].v ELSE Empty

\* ------------------------------------------------- extractAuthFromStorage

\* eval is the outcome of page.Evaluate: "ok", "err" (the call fails) or
\* "nonstring" (the result is not a string).
extractAuthFromStorageFallback(storage, eval) ==
    IF eval = "err"
    THEN [result |-> ZeroResult, err |-> "evaluate failed"]
    ELSE IF eval = "nonstring"
    THEN [result |-> ZeroResult, err |-> "unexpected storage scan result"]
    ELSE LET data == FallbackScript(storage) IN
         IF UnmarshalFails(data)
         THEN [result |-> ZeroResult, err |-> "json: cannot unmarshal"]
         ELSE [result |->
                 [AccessToken    |-> Data(data, "accessToken"),
                  UserUUID       |-> Data(data, "userUuid"),
                  PublicUserUUID |-> Data(data, "publicUserUuid"),
                  UserName       |-> Data(data, "userName"),
                  Email          |-> Data(data, "email")],
               err |-> Nil]

\* A variant that takes every field the scan returned, whether or not the
\* scan found an access token or a user id.
MergeFallbackAlways(result, fallback) ==
    IF fallback.err = Nil
    THEN [f \in DOMAIN result |->
             IF result[f] = Empty THEN fallback.result[f] ELSE result[f]]
    ELSE result

\* The result after phase 1 (canonical keys) and phase 2 (merge of the scan).
MergeFallback(result, fallback) ==
    IF fallback.err = Nil /\
       (fallback.result.AccessToken # Empty \/ fallback.result.UserUUID # Empty)
    THEN [f \in DOMAIN result |->
             IF result[f] = Empty THEN fallback.result[f] ELSE result[f]]
    ELSE result

\* Lines 348-375: the result built from the canonical keys, completed by the
\* scan when the access token or the user id is still missing.
GatherFromStorage(storage, eval2) ==
    LET data == CanonicalScript(storage)
        result == [AccessToken    |-> Data(data, "accessToken"),
                   UserUUID       |-> Data(data, "userUuid"),
                   PublicUserUUID |-> Data(data, "publicUserUuid"),
                   UserName       |-> Data(data, "userName"),
                   Email          |-> Data(data, "email")]
    IN  IF result.AccessToken = Empty \/ result.UserUUID = Empty
        THEN MergeFallback(result, extractAuthFromStorageFallback(storage, eval2))
        ELSE result

\* A variant that never fails: whatever went wrong, it returns what it has
\* gathered, possibly nothing.
extractAuthFromStorageNeverFails(storage, eval, eval2) ==
    IF eval = "ok"
    THEN [result |-> GatherFromStorage(storage, eval2), err |-> Nil]
    ELSE [result |-> ZeroResult, err |-> Nil]

extractAuthFromStorage(storage, eval, eval2) ==
    IF eval = "err"
    THEN [result |-> ZeroResult, err |-> "evaluate failed"]
    ELSE IF eval = "nonstring"
    THEN [result |-> ZeroResult, err |-> "unexpected localStorage result"]
    ELSE finalizeAuthResult(GatherFromStorage(storage, eval2))

\* ---------------------------------------------------- observed responses

AuthURL == <<"https://api.getbring.com", "/rest", "/v2", "/bringauth">>
OtherURL == <<"https://api.getbring.com", "/rest", "/v2", "/bringusers">>

ZeroPayload ==
    [Name |-> Empty, UUID |-> Empty, PublicUUID |-> Empty,
     AccessToken |-> Empty, RefreshToken |-> Empty]

\* resp.JSON(&payload) into an authResponsePayload; a body is
\* [isJSON |-> BOOLEAN, obj |-> the string members of the JSON object].
RespJSON(body) ==
    IF ~body.isJSON
    THEN [err |-> "invalid character", payload |-> ZeroPayload]
    ELSE [err |-> Nil,
          payload |-> [Name         |-> Field(body.obj, "name"),
                       UUID         |-> Field(body.obj, "uuid"),
                       PublicUUID   |-> Field(body.obj, "publicUuid"),
                       AccessToken  |-> Field(body.obj, "access_token"),
                       RefreshToken |-> Field(body.obj, "refresh_token")]]

\* The bodies the server may send.
Body(t, u) ==
    [isJSON |-> TRUE,
     obj |-> [access_token |-> t, uuid |-> u,
              publicUuid |-> <<"p-1">>, name |-> <<"Ann">>]]
JSONBodies ==
    {Body(TokFull, <<"u-1">>), Body(TokFull, Empty), Body(TokColon, Empty),
     Body(TokOpaque, Empty), Body(Empty, <<"u-1">>)}
BodyFull == Body(TokFull, <<"u-1">>)
BodyHTML == [isJSON |-> FALSE, obj |-> [html |-> <<"<html>">>]]

Responses ==
    {[status |-> 200, url |-> AuthURL, body |-> b] : b \in JSONBodies \cup {BodyHTML}}
    \cup {[status |-> 401, url |-> AuthURL, body |-> BodyFull],
          [status |-> 200, url |-> OtherURL, body |-> BodyFull]}

\* The tests of the page.OnResponse handler before it starts the goroutine.
HandlerAccepts(r) == r.status = 200 /\ Contains(r.url, "/bringauth")

\* A variant of the goroutine's tests without the empty-token test.
GoroutineOffersAnyToken(r) == RespJSON(r.body).err = Nil

\* The tests of the goroutine before it offers the payload.
GoroutineOffers(r) ==
    LET p == RespJSON(r.body) IN p.err = Nil /\ p.payload.AccessToken # Empty

\* make(chan authResponsePayload, 1)
ChanCap == 1

\* select { case authResponseCh <- payload: default: } : whether the send
\* case is taken.
SendTaken(c) == Len(c) < ChanCap

\* A variant with a plain send (no default case): it blocks while the
\* channel is full.
SelectBlocking(c) == Len(c) < ChanCap

\* Whether the goroutine's select can complete in a state with channel c.
SelectReady(c) == TRUE

\* ------------------------------------------------------ storage contents

NoStorage == [local |-> <<>>, session |-> <<>>]

OnlyToken(t) == [local |-> <<>>, session |-> <<<<"accessToken", t>>>>]

Storages ==
    {OnlyToken(t) : t \in {TokFull, TokColon, TokShort, TokNoSub, TokEmptySub,
                           TokNotJSON, TokBad64, TokOpaque}}
    \cup
    {NoStorage,
     [local |-> <<<<"accessToken", TokShort>>, <<"userUuid", <<"u-9">>>>,
                  <<"publicUserUuid", <<"p-9">>>>, <<"userName", <<"Bob">>>>,
                  <<"email", <<"b@x">>>>>>,
      session |-> <<>>],
     [local |-> <<<<"userUuid", <<"u-9">>>>>>, session |-> <<>>],
     [local |-> <<<<"accessToken", Empty>>>>,
      session |-> <<<<"accessToken", TokFull>>, <<"email", <<"b@x">>>>>>],
     [local |-> <<<<"state", <<"{\"auth\":{\"access_token\":\"abc\"}}">>>>>>,
      session |-> <<>>],
     [local |-> <<<<"state", <<"{\"auth\":{\"access_token\":\"abc\"}}">>>>,
                  <<"profile",
                    <<"{\"user\":{\"uuid\":\"u-2\",\"name\":\"Ann\",\"email\":\"a@x\"}}">>>>,
                  <<"extra", <<"{\"email\":\"late@x\",\"name\":\"Late\"}">>>>>>,
      session |-> <<>>],
     [local |-> <<<<"accessToken", TokFull>>>>,
      session |-> <<<<"cache",
                      <<"{\"accessToken\":\"t-2\",\"userUuid\":\"u-3\",\"publicUuid\":\"p-3\"}">>>>>>],
     [local |-> <<<<"jwt", TokFull>>>>, session |-> <<>>],
     [local |-> <<<<"cfg", <<"{\"token\":123}">>>>>>,
      session |-> <<<<"accessToken", TokFull>>>>],
     [local |-> <<<<"n", <<"42">>>>>>, session |-> <<>>]}

EvalOutcomes == {"ok", "err", "nonstring"}

\* --------------------------------------------------------------- the state

VARIABLES
    pc,          \* position of BrowserLoginWithIntercept
    ret,         \* <<>> until it returns, then <<[result, err]>>
    observed,    \* the responses the page has observed, in order
    gpc,         \* per observed response: "skip" (handler returned early),
                 \* "run" (goroutine started), "rejected", "sent", "dropped"
    ch,          \* authResponseCh
    recv,        \* <<>> until waitForAuthResponse returns, then <<[payload, ok]>>
    pageStorage, \* localStorage and sessionStorage of the logged-in page
    storageRead  \* one [storage, eval, eval2] per run of extractAuthFromStorage

pipelineVars == <<pc, ret, observed, gpc, ch, recv, pageStorage, storageRead>>

\* The state of the timed browser session (waitForLogin and the deadlines of
\* the later stages, the deferred releases); idle outside SessionSpec.
VARIABLES
    fn,          \* "BrowserLogin" or "BrowserLoginWithIntercept"
    at,          \* position in the function
    now,         \* the clock, in seconds since the blocking stage began
    deadline,    \* the deadline of the blocking stage, on that clock
    pages,       \* URLs of the pages open in the browser context, in order
    polled,      \* the polls of waitForLogin: how many, the time of the last,
                 \* the time between the last two, the pages of the poll that
                 \* detected the login
    defers,      \* the deferred calls registered so far, in order
    released,    \* the engine and context calls made so far, in order
    out,         \* <<>> until the function returns, then <<err>>
    authPage     \* <<>> until findBringAppPage has chosen, then <<the URL the
                 \* chosen page has at that moment>>

sessionVars ==
    <<fn, at, now, deadline, pages, polled, defers, released, out, authPage>>

\* decodeJWT and the expiry tests as functions of their inputs; idle outside
\* JwtSpec.
VARIABLES
    jwtToken,    \* the token given to decodeJWT
    jwtNow,      \* time.Now(), in seconds
    jwtOut,      \* <<>> until decodeJWT returned, then <<[claims, err]>>
    jwtExpired   \* <<>> until the expiry tests ran, then <<[login, status]>>

jwtVars == <<jwtToken, jwtNow, jwtOut, jwtExpired>>

\* The command line program: the saved config file and the last call of Run;
\* idle outside CliSpec.
VARIABLES
    cfg,         \* the Config in the config file (the zero Config: no file)
    cfg0,        \* the Config in the config file when the last Run began
    argv,        \* <<>> or <<[command, positional, flags]>> of the last Run
    today,       \* time.Now() during the last Run, in seconds
    calls,       \* what the last Run did outside, in order: API requests, the
                 \* browser login, the prompt, saveConfig
    stdout,      \* what the last Run wrote to os.Stdout
    stderr,      \* what the last Run wrote to os.Stderr
    exit         \* <<>> or <<the exit code of the last Run>>

cliVars == <<cfg, cfg0, argv, today, calls, stdout, stderr, exit>>

\* One operation of the API client as a function of the server's response;
\* idle outside ClientSpec.
VARIABLES
    operation,   \* the client operation called
    response,    \* the HTTP response the server gives to its request
    returned     \* <<>> until the operation returned, then <<[err, data]>>

clientVars == <<operation, response, returned>>

\* One run of the storage scan script, loop iteration by loop iteration, and
\* of extractAuthFromStorage on the same storage; idle outside ScanSpec.
VARIABLES
    scanStore,   \* localStorage and sessionStorage of the page
    scanIdx,     \* how many storage entries the loops have examined
    scanFound,   \* the script's result object so far
    scanOut,     \* <<>> until the script returns, then <<its result>>
    extractOut   \* <<>> until extractAuthFromStorage returns, then
                 \* <<[eval2, result, err]>>

scanVars == <<scanStore, scanIdx, scanFound, scanOut, extractOut>>

\* What the credential pipeline leaves alone.
others == <<sessionVars, jwtVars, cliVars, clientVars, scanVars>>

notSession == <<pipelineVars, jwtVars, cliVars, clientVars, scanVars>>
notJwt == <<pipelineVars, sessionVars, cliVars, clientVars, scanVars>>
notCli == <<pipelineVars, sessionVars, jwtVars, clientVars, scanVars>>
notClient == <<pipelineVars, sessionVars, jwtVars, cliVars, scanVars>>
notScan == <<pipelineVars, sessionVars, jwtVars, cliVars, clientVars>>

vars == <<pipelineVars, others>>

NoPolls == [n |-> 0, t |-> 0, gap |-> 0, found |-> <<>>]

SessionIdle ==
    /\ fn = "none"
    /\ at = "idle"
    /\ now = 0
    /\ deadline = 0
    /\ pages = <<>>
    /\ polled = NoPolls
    /\ defers = <<>>
    /\ released = <<>>
    /\ out = <<>>
    /\ authPage = <<>>

JwtIdle ==
    /\ jwtToken = <<>>
    /\ jwtNow = 0
    /\ jwtOut = <<>>
    /\ jwtExpired = <<>>

ClientIdle ==
    /\ operation = "none"
    /\ response = <<>>
    /\ returned = <<>>

ScanIdle ==
    /\ scanStore = NoStorage
    /\ scanIdx = 0
    /\ scanFound = ScanEmpty
    /\ scanOut = <<>>
    /\ extractOut = <<>>

\* Config{}: what loadConfig returns when there is no (readable) file.
ZeroConfig ==
    [AccessToken |-> Empty, UserUUID |-> Empty, PublicUserUUID |-> Empty,
     UserName |-> Empty, Email |-> Empty,
     Servings |-> 0, DefaultList |-> Empty, Locale |-> Empty]

CliIdle ==
    /\ cfg = ZeroConfig
    /\ cfg0 = ZeroConfig
    /\ argv = <<>>
    /\ today = 0
    /\ calls = <<>>
    /\ stdout = <<>>
    /\ stderr = <<>>
    /\ exit = <<>>

\* The credential pipeline at rest: the state of its variables in the
\* specifications of the other parts of the program.
PipelineIdle ==
    /\ pc = "idle"
    /\ ret = <<>>
    /\ observed = <<>>
    /\ gpc = <<>>
    /\ ch = <<>>
    /\ recv = <<>>
    /\ pageStorage = NoStorage
    /\ storageRead = <<>>

Init ==
    /\ pc = "start"
    /\ ret = <<>>
    /\ observed = <<>>
    /\ gpc = <<>>
    /\ ch = <<>>
    /\ recv = <<>>
    /\ pageStorage = NoStorage
    /\ storageRead = <<>>
    /\ SessionIdle
    /\ JwtIdle
    /\ CliIdle
    /\ ClientIdle
    /\ ScanIdle

\* ------------------------------------------------ BrowserLoginWithIntercept

Return(result, err) ==
    /\ ret' = <<[result |-> result, err |-> err]>>
    /\ pc' = "returned"

\* ensurePlaywright: Run, and on failure Install and Run again.
ensurePlaywright(run1, install, run2) ==
    IF run1 THEN Nil
    ELSE IF ~install THEN "playwright install failed"
    ELSE IF ~run2 THEN "playwright run failed"
    ELSE Nil

EnsurePlaywright ==
    /\ pc = "start"
    /\ \E run1, install, run2 \in BOOLEAN :
          LET err == ensurePlaywright(run1, install, run2) IN
          IF err # Nil
          THEN Return(ZeroResult, err)
          ELSE pc' = "launch" /\ ret' = ret
    /\ UNCHANGED <<others, observed, gpc, ch, recv, pageStorage, storageRead>>

LaunchPersistentContext ==
    /\ pc = "launch"
    /\ \E ok \in BOOLEAN :
          IF ok THEN pc' = "newPage" /\ ret' = ret
          ELSE Return(ZeroResult, "launch failed")
    /\ UNCHANGED <<others, observed, gpc, ch, recv, pageStorage, storageRead>>

\* browserContext.NewPage, make(chan, 1) and page.OnResponse(handler).
NewPage ==
    /\ pc = "newPage"
    /\ \E ok \in BOOLEAN :
          IF ok THEN pc' = "goto" /\ ret' = ret
          ELSE Return(ZeroResult, "new page failed")
    /\ UNCHANGED <<others, observed, gpc, ch, recv, pageStorage, storageRead>>

Goto ==
    /\ pc = "goto"
    /\ \E ok \in BOOLEAN :
          IF ok THEN pc' = "waitLogin" /\ ret' = ret
          ELSE Return(ZeroResult, "navigation failed")
    /\ UNCHANGED <<others, observed, gpc, ch, recv, pageStorage, storageRead>>

\* waitForLogin(page, 5*time.Minute): nil or "login timed out". The web app
\* a user has logged in to holds one of the storage contents.
WaitForLoginIn(storages) ==
    /\ pc = "waitLogin"
    /\ \E detected \in BOOLEAN :
          IF detected
          THEN /\ pc' = "waitAuth" /\ ret' = ret
               /\ \E st \in storages : pageStorage' = st
          ELSE Return(ZeroResult, "login timed out") /\ pageStorage' = pageStorage
    /\ UNCHANGED <<others, observed, gpc, ch, recv, storageRead>>

WaitForLogin == WaitForLoginIn(Storages)

FromPayload(payload) ==
    [AccessToken    |-> payload.AccessToken,
     UserUUID       |-> payload.UUID,
     PublicUserUUID |-> payload.PublicUUID,
     UserName       |-> payload.Name,
     Email          |-> Empty]

\* A variant that does not return after the interceptor delivered: it goes on
\* to the storage extractor.
AuthResponseReceivedThenStorage ==
    /\ pc = "waitAuth"
    /\ ch # <<>>
    /\ recv' = <<[payload |-> Head(ch), ok |-> TRUE]>>
    /\ ch' = Tail(ch)
    /\ pc' = "storage"
    /\ UNCHANGED <<others, ret, observed, gpc, pageStorage, storageRead>>

\* A variant that fills the fields the payload leaves empty from the page's
\* storage before it finalizes.
AuthResponseReceivedMerged ==
    /\ pc = "waitAuth"
    /\ ch # <<>>
    /\ recv' = <<[payload |-> Head(ch), ok |-> TRUE]>>
    /\ ch' = Tail(ch)
    /\ LET p == FromPayload(Head(ch))
           st == GatherFromStorage(pageStorage, "ok")
           f == finalizeAuthResult(
                    [k \in DOMAIN p |-> IF p[k] # Empty THEN p[k] ELSE st[k]])
       IN  Return(f.result, f.err)
    /\ UNCHANGED <<others, observed, gpc, pageStorage, storageRead>>

\* waitForAuthResponse takes the payload from the channel; the pipeline
\* returns finalizeAuthResult of it.
AuthResponseReceived ==
    /\ pc = "waitAuth"
    /\ ch # <<>>
    /\ recv' = <<[payload |-> Head(ch), ok |-> TRUE]>>
    /\ ch' = Tail(ch)
    /\ LET f == finalizeAuthResult(FromPayload(Head(ch))) IN Return(f.result, f.err)
    /\ UNCHANGED <<others, observed, gpc, pageStorage, storageRead>>

\* A variant whose timer can fire although a payload is in the channel.
AuthResponseTimeoutEarly ==
    /\ pc = "waitAuth"
    /\ recv' = <<[payload |-> ZeroPayload, ok |-> FALSE]>>
    /\ pc' = "storage"
    /\ UNCHANGED <<others, ret, observed, gpc, ch, pageStorage, storageRead>>

\* waitForAuthResponse: the 10 s timer fires with the channel still empty.
AuthResponseTimeout ==
    /\ pc = "waitAuth"
    /\ ch = <<>>
    /\ recv' = <<[payload |-> ZeroPayload, ok |-> FALSE]>>
    /\ pc' = "storage"
    /\ UNCHANGED <<others, ret, observed, gpc, ch, pageStorage, storageRead>>

\* findBringAppPage, waitForAuthStorage (result ignored), WaitForTimeout and
\* extractAuthFromStorage on the page's storage.
StoragePathIn(evals) ==
    /\ pc = "storage"
    /\ \E eval, eval2 \in evals :
          /\ eval # "ok" => eval2 = "ok"
          /\ storageRead' = Append(storageRead,
                 [storage |-> pageStorage, eval |-> eval, eval2 |-> eval2])
          /\ LET f == extractAuthFromStorage(pageStorage, eval, eval2) IN
             Return(f.result, f.err)
    /\ UNCHANGED <<others, observed, gpc, ch, recv, pageStorage>>

StoragePath == StoragePathIn(EvalOutcomes)

\* ------------------------------------------------- the response listener

PageAlive == pc \in {"goto", "waitLogin", "waitAuth", "storage"}

\* The page.OnResponse handler runs for one more response.
OnResponse(r) ==
    /\ PageAlive
    /\ Len(observed) < MaxResponses
    /\ observed' = Append(observed, r)
    /\ gpc' = Append(gpc, IF HandlerAccepts(r) THEN "run" ELSE "skip")
    /\ UNCHANGED <<others, pc, ret, ch, recv, pageStorage, storageRead>>

\* The state of the g-th response's goroutine; "none" before the response.
GoState(g) == IF g \in 1..Len(gpc) THEN gpc[g] ELSE "none"

\* The goroutine of the g-th observed response: parse the body, then offer
\* the payload to the channel without blocking.
Goroutine(g) ==
    /\ GoState(g) = "run"
    /\ IF ~GoroutineOffers(observed[g])
       THEN gpc' = [gpc EXCEPT ![g] = "rejected"] /\ ch' = ch
       ELSE /\ SelectReady(ch)
            /\ IF SendTaken(ch)
               THEN /\ ch' = Append(ch, RespJSON(observed[g].body).payload)
                    /\ gpc' = [gpc EXCEPT ![g] = "sent"]
               ELSE /\ ch' = ch
                    /\ gpc' = [gpc EXCEPT ![g] = "dropped"]
    /\ UNCHANGED <<others, pc, ret, observed, recv, pageStorage, storageRead>>

Next ==
    \/ EnsurePlaywright
    \/ LaunchPersistentContext
    \/ NewPage
    \/ Goto
    \/ WaitForLogin
    \/ AuthResponseReceived
    \/ AuthResponseTimeout
    \/ StoragePath
    \/ \E r \in Responses : OnResponse(r)
    \/ \E g \in 1..Len(gpc) : Goroutine(g)

Spec == Init /\ [][Next]_vars

\* The listener with one storage content and one evaluation outcome (it reads
\* neither), under the Go scheduler's fairness: every started goroutine runs.
ListenerNext ==
    \/ EnsurePlaywright
    \/ LaunchPersistentContext
    \/ NewPage
    \/ Goto
    \/ WaitForLoginIn({NoStorage})
    \/ AuthResponseReceived
    \/ AuthResponseTimeout
    \/ StoragePathIn({"ok"})
    \/ \E r \in Responses : OnResponse(r)
    \/ \E g \in 1..Len(gpc) : Goroutine(g)

ListenerSpec ==
    /\ Init
    /\ [][ListenerNext]_vars
    /\ \A g \in 1..(MaxResponses + 1) : WF_vars(Goroutine(g))

\* ------------------------------------------------------------ properties

Returned == pc = "returned" /\ ret # <<>>
Succeeded == Returned /\ ret[1].err = Nil
Failed == Returned /\ ret[1].err # Nil

\* The payload the goroutine of the g-th observed response offers.
PayloadOf(g) == RespJSON(observed[g].body).payload

\* A matching auth response: status 200, URL containing /bringauth, a JSON
\* body and a non-empty access_token.
Matching(r) ==
    /\ r.status = 200
    /\ \E i \in 1..Len(r.url) : r.url[i] = "/bringauth"
    /\ r.body.isJSON
    /\ "access_token" \in DOMAIN r.body.obj
    /\ r.body.obj["access_token"] # <<>>

\* C1: every successful return of the browser-login pipeline carries a
\* non-empty AccessToken and a non-empty UserUUID.
C1_NeverEmptyCredential ==
    Succeeded => ret[1].result.AccessToken # <<>> /\ ret[1].result.UserUUID # <<>>

\* C2: whenever the pipeline (through extractAuthFromStorage and
\* finalizeAuthResult) returns an error, the returned BrowserAuthResult is
\* the zero value: all five fields are empty.
C2_AllOrNothing ==
    Failed => \A f \in DOMAIN ret[1].result : ret[1].result[f] = <<>>

\* C2 witness: the storage held a token (a field was gathered) and the
\* attempt still failed, at the user-id backfill.
C2_Witness ==
    /\ Failed
    /\ storageRead # <<>>
    /\ storageRead[1].eval = "ok"
    /\ pageStorage = OnlyToken(TokOpaque)

\* C3: of two matching auth responses observed one after the other, the
\* pipeline receives the payload of the first observed one and the second
\* is dropped (never placed in the channel).
C3_FirstObservedWins ==
    \A i, j \in 1..Len(observed) :
        (/\ i < j
         /\ Matching(observed[i]) /\ Matching(observed[j])
         /\ PayloadOf(i) # PayloadOf(j)
         /\ \A k \in 1..Len(observed) : Matching(observed[k]) => k \in {i, j})
        => /\ gpc[j] # "sent"
           /\ (recv # <<>> /\ recv[1].ok) => recv[1].payload = PayloadOf(i)

\* C4: the response listener never blocks: every started parsing goroutine
\* finishes, whether or not the consumer ever reads the channel, and the
\* channel never holds more than one payload.
C4_ListenerNeverBlocks ==
    /\ [](Len(ch) <= 1)
    /\ \A g \in 1..(MaxResponses + 1) :
          [](GoState(g) = "run"
                => <>(GoState(g) \in {"rejected", "sent", "dropped"}))

\* C4 witness: the attempt has returned without ever reading the channel
\* (login timed out), the slot is occupied, and a later goroutine has
\* finished by dropping its payload.
C4_Witness ==
    /\ Failed
    /\ recv = <<>>
    /\ Len(ch) = 1
    /\ \E g \in 1..Len(gpc) : gpc[g] = "dropped"

\* C5: only a matching auth response can place a payload in the channel;
\* every payload waitForAuthResponse returns with ok = true has a non-empty
\* AccessToken; a response failing any of the tests never reaches the
\* channel.
C5_OnlyMatchingDelivered ==
    /\ \A k \in 1..Len(ch) :
          /\ ch[k].AccessToken # <<>>
          /\ \E g \in 1..Len(observed) :
                Matching(observed[g]) /\ gpc[g] = "sent" /\ ch[k] = PayloadOf(g)
    /\ (recv # <<>> /\ recv[1].ok) =>
          /\ recv[1].payload.AccessToken # <<>>
          /\ \E g \in 1..Len(observed) :
                Matching(observed[g]) /\ gpc[g] = "sent" /\ recv[1].payload = PayloadOf(g)
    /\ \A g \in 1..Len(observed) :
          ~Matching(observed[g]) => gpc[g] \in {"skip", "run", "rejected"}

\* C5 witness: a response that fails a test was observed and rejected, a
\* matching one was delivered, and waitForAuthResponse returned it.
C5_Witness ==
    /\ recv # <<>> /\ recv[1].ok
    /\ \E g, h \in 1..Len(observed) :
          /\ ~Matching(observed[g]) /\ gpc[g] = "rejected"
          /\ Matching(observed[h]) /\ gpc[h] = "sent"

\* What the pipeline has gathered when it calls finalizeAuthResult: the
\* fields of the delivered payload, or those found in storage.
Delivered == recv # <<>> /\ recv[1].ok
TimedOut == recv # <<>> /\ ~recv[1].ok
StorageWasRead == storageRead # <<>> /\ storageRead[1].eval = "ok"
Finalized == Returned /\ (Delivered \/ (TimedOut /\ StorageWasRead))
Gathered ==
    IF Delivered
    THEN FromPayload(recv[1].payload)
    ELSE GatherFromStorage(storageRead[1].storage, storageRead[1].eval2)

\* The part of a string after its last ":" (the whole string without one).
IsLastSegment(id, s) ==
    /\ \A i \in 1..Len(id) : id[i] # ":"
    /\ \E k \in 1..(Len(s) + 1) :
          /\ id = SubSeq(s, k, Len(s))
          /\ k > 1 => s[k - 1] = ":"

\* The tokens of the model by what their claims segment holds.
UndecodableTokens ==
    {TokNotJSON, TokBad64, TokOpaque, TokTwoParts, TokFourParts, <<"abc">>, <<"t-2">>}
NoSubjectTokens == {TokNoSub, TokEmptySub, TokNumSub}
SubjectOf(token) ==
    CASE token = TokFull -> <<"A", ":", "B", ":", "C", ":", "id-123">>
      [] token = TokColon -> <<"A", ":", "B", ":", "C", ":">>
      [] token = TokShort -> <<"id-9">>
      [] OTHER -> <<>>

\* A subject of the form seg:seg:seg:id in the atoms of the model.
FourSegments(sub) ==
    /\ Len(sub) = 7
    /\ \A i \in {2, 4, 6} : sub[i] = ":"
    /\ \A i \in {1, 3, 5, 7} : sub[i] # ":"

\* C6: in every login attempt in which login is detected, the storage
\* extractor runs exactly once, whether the interceptor delivered a payload
\* or the wait timed out.
C6_StorageAlwaysRunsOnce ==
    Returned /\ recv # <<>> => Len(storageRead) = 1

\* C6 as amended: after login is detected the storage extractor runs exactly
\* once when the interceptor wait timed out and not at all when the
\* interceptor delivered a payload (and never without a detected login).
C6_StorageRunsOnlyAfterTimeout ==
    /\ Len(storageRead) <= 1
    /\ Returned =>
          Len(storageRead) = (IF TimedOut THEN 1 ELSE 0)

\* C6 witness: login was detected, the interceptor delivered, and the attempt
\* returned a credential although the page's storage also held one.
C6_Witness ==
    /\ Succeeded
    /\ Delivered
    /\ storageRead = <<>>
    /\ GatherFromStorage(pageStorage, "ok").AccessToken # <<>>

\* C7: each field of the emitted credential is the interceptor-delivered
\* value when that is non-empty and otherwise the storage extractor's value
\* (a userId that neither source supplies is left to the backfill).
C7_MergeRule ==
    Succeeded /\ Delivered =>
        LET icpt == FromPayload(recv[1].payload)
            stor == GatherFromStorage(pageStorage, "ok")
        IN  \A f \in DOMAIN ret[1].result :
                LET merged == IF icpt[f] # <<>> THEN icpt[f] ELSE stor[f] IN
                \/ f = "UserUUID" /\ merged = <<>>
                \/ ret[1].result[f] = merged

\* C7 as amended: the emitted credential comes from one source. When the
\* interceptor delivered, accessToken, publicUserId and displayName are the
\* payload's, email is empty and userId is the payload's uuid or, if that is
\* empty, the last colon-delimited segment of the token's subject; storage
\* is not consulted. Otherwise all five fields are the storage extractor's.
C7_SingleSource ==
    /\ Succeeded /\ Delivered =>
          LET p == recv[1].payload
              r == ret[1].result
          IN  /\ r.AccessToken = p.AccessToken
              /\ r.PublicUserUUID = p.PublicUUID
              /\ r.UserName = p.Name
              /\ r.Email = <<>>
              /\ IF p.UUID # <<>>
                 THEN r.UserUUID = p.UUID
                 ELSE IsLastSegment(r.UserUUID, SubjectOf(p.AccessToken))
    /\ Succeeded /\ ~Delivered =>
          /\ Len(storageRead) = 1
          /\ ret[1].result =
                extractAuthFromStorage(storageRead[1].storage, storageRead[1].eval,
                                       storageRead[1].eval2).result

\* C7 witness: both sources yield an access token and storage also holds an
\* email; the emitted credential has the interceptor's token and no email.
C7_Witness ==
    /\ Succeeded
    /\ Delivered
    /\ LET stor == GatherFromStorage(pageStorage, "ok") IN
          /\ stor.AccessToken # <<>>
          /\ stor.AccessToken # recv[1].payload.AccessToken
          /\ stor.Email # <<>>
    /\ ret[1].result.AccessToken = recv[1].payload.AccessToken
    /\ ret[1].result.Email = <<>>

\* C8: when the gathered UserUUID is empty and the access token is a
\* decodable JWT whose sub claim is A:B:C:id, the pipeline succeeds with
\* UserUUID = id and the other fields unchanged.
C8_Backfill ==
    (/\ Finalized
     /\ Gathered.UserUUID = <<>>
     /\ FourSegments(SubjectOf(Gathered.AccessToken)))
    => /\ ret[1].err = Nil
       /\ ret[1].result.UserUUID = <<SubjectOf(Gathered.AccessToken)[7]>>
       /\ \A f \in DOMAIN Gathered \ {"UserUUID"} : ret[1].result[f] = Gathered[f]

\* C8 witness: login detected, no payload within the interceptor wait, and
\* storage yields only accessToken, whose subject is A:B:C:id-123.
C8_Witness ==
    /\ Succeeded
    /\ TimedOut
    /\ StorageWasRead
    /\ pageStorage = OnlyToken(TokFull)
    /\ ret[1].result.UserUUID = <<"id-123">>

C10_TypedFailures ==
    (/\ Failed
     /\ Finalized
     /\ Gathered.AccessToken # <<>>)
    => ret[1].err # finalizeAuthResult(ZeroResult).err

\* C10 as amended: an attempt whose gathered accessToken is empty and one
\* whose token is present but has no decodable non-empty subject (with no
\* user id gathered) both fail, and with the same error, "failed to extract
\* authentication data": the caller cannot tell the causes apart.
C10_OneFailureKind ==
    (/\ Finalized
     /\ \/ Gathered.AccessToken = <<>>
        \/ /\ Gathered.UserUUID = <<>>
           /\ Gathered.AccessToken \in UndecodableTokens \cup NoSubjectTokens)
    => ret[1].err = "failed to extract authentication data"

\* C10 witness: a token was gathered, no user id could be derived from it,
\* and the attempt failed with the same error as for a missing token.
C10_Witness ==
    /\ Failed
    /\ Finalized
    /\ Gathered.AccessToken = TokOpaque
    /\ Gathered.UserUUID = <<>>
    /\ ret[1].err = "failed to extract authentication data"

\* ======================================================= the timed session
\* BrowserLogin and BrowserLoginWithIntercept with the clock, the pages of the
\* browser context and the deferred releases. Time is counted in seconds from
\* the start of the blocking stage the function is in (waitForLogin,
\* waitForAuthResponse, waitForAuthStorage, the settling wait) and passes
\* inside the blocking calls only.

\* waitForLogin(page, 5*time.Minute)
LoginTimeout == 300
\* waitForAuthResponse(authResponseCh, 10*time.Second)
AuthTimeout == 10
\* waitForAuthStorage(authPage, 90*time.Second)
StorageTimeout == 90
\* page.WaitForTimeout(1000)
PollInterval == 1

BringHost == "web.getbring.com"

\* URLs: scheme, host, then the rest.
bringLoginURL == <<"https://", BringHost, "/login">>
bringAppURL == <<"https://", BringHost, "/app">>
\* The page of a sign-in provider, with the address to return to in its query.
ProviderURL ==
    <<"https://", "accounts.example", "/auth?redirect_uri=https%3A%2F%2F",
      BringHost, "%2Fapp">>
BlankURL == <<"about:blank">>

URLs == {bringLoginURL, bringAppURL, ProviderURL, BlankURL}

\* The pages a browser context holds: the navigated page, and maybe a tab.
PageLists == {<<u>> : u \in URLs} \cup {<<u, v>> : u \in URLs, v \in URLs}

isBringURL(url) == Contains(url, BringHost)

\* loginDetected(page) with ps the result of page.Context().Pages().
loginDetected(ps) ==
    \E i \in 1..Len(ps) : isBringURL(ps[i]) /\ ~Contains(ps[i], "/login")

\* findBringAppPage over the URLs of the context's pages: the first page on
\* the site and off /login, else the page itself (the first of the context).
findBringAppPage(ps) ==
    IF \E i \in 1..Len(ps) : isBringURL(ps[i]) /\ ~Contains(ps[i], "/login")
    THEN ps[CHOOSE i \in 1..Len(ps) :
               /\ isBringURL(ps[i]) /\ ~Contains(ps[i], "/login")
               /\ \A j \in 1..(i - 1) :
                     ~(isBringURL(ps[j]) /\ ~Contains(ps[j], "/login"))]
    ELSE ps[1]

\* The deferred calls run in the reverse of the order they were registered.
RunDefersInOrder(stack) == stack

RunDefers(stack) == [i \in 1..Len(stack) |-> stack[Len(stack) + 1 - i]]

SessionInit ==
    /\ PipelineIdle
    /\ JwtIdle
    /\ CliIdle
    /\ ClientIdle
    /\ ScanIdle
    /\ fn \in {"BrowserLogin", "BrowserLoginWithIntercept"}
    /\ at = "ensurePlaywright"
    /\ now = 0
    /\ deadline = 0
    /\ pages = <<>>
    /\ polled = NoPolls
    /\ defers = <<>>
    /\ released = <<>>
    /\ out = <<>>
    /\ authPage = <<>>

\* return err, and the deferred calls.
SessionReturn(err) ==
    /\ at' = "returned"
    /\ out' = <<err>>
    /\ released' = released \o RunDefers(defers)

\* pw, err := ensurePlaywright(); defer pw.Stop()
StartEngine ==
    /\ at = "ensurePlaywright"
    /\ \E run1, install, run2 \in BOOLEAN :
          LET err == ensurePlaywright(run1, install, run2) IN
          IF err # Nil
          THEN SessionReturn(err) /\ defers' = defers
          ELSE /\ released' = Append(released, "playwright.Run")
               /\ defers' = Append(defers, "pw.Stop")
               /\ at' = "launch"
               /\ out' = out
    /\ UNCHANGED <<notSession, authPage, fn, now, deadline, pages, polled>>

\* browser.LaunchPersistentContext; defer browserContext.Close()
LaunchContext ==
    /\ at = "launch"
    /\ \E ok \in BOOLEAN :
          IF ~ok
          THEN SessionReturn("launch failed") /\ defers' = defers
          ELSE /\ released' = Append(released, "LaunchPersistentContext")
               /\ defers' = Append(defers, "browserContext.Close")
               /\ at' = "newPage"
               /\ out' = out
    /\ UNCHANGED <<notSession, authPage, fn, now, deadline, pages, polled>>

\* browserContext.NewPage (and page.OnResponse in BrowserLoginWithIntercept)
OpenPage ==
    /\ at = "newPage"
    /\ \E ok \in BOOLEAN :
          IF ~ok
          THEN SessionReturn("new page failed") /\ pages' = pages
          ELSE /\ pages' = <<BlankURL>>
               /\ at' = "goto"
               /\ UNCHANGED <<out, released>>
    /\ UNCHANGED <<notSession, authPage, fn, now, deadline, polled, defers>>

\* The times a blocking call with timeout t may take when what it waits for
\* happens: at once, after a second, at the last moment.
Delays(t) == {0, PollInterval, t}

\* A late deadline test: five seconds of grace.
deadlinePassedLate(t, d) == t > d + 5

\* time.Now().After(deadline)
deadlinePassed(t, d) == t > d

\* page.Goto(url, networkidle): the page ends on the login page or, when the
\* profile still holds a session, on the app. BrowserLogin calls waitForLogin
\* only if the page's URL contains "/login"; waitForLogin starts by computing
\* its deadline.
Navigate ==
    /\ at = "goto"
    /\ \E ok \in BOOLEAN :
          IF ~ok
          THEN SessionReturn("navigation failed") /\ UNCHANGED <<pages, deadline>>
          ELSE /\ \E u \in {bringLoginURL, bringAppURL} :
                    /\ pages' = <<u>>
                    /\ IF fn = "BrowserLoginWithIntercept" \/ Contains(u, "/login")
                       THEN at' = "poll" /\ deadline' = now + LoginTimeout
                       ELSE at' = "waitForAuthStorage" /\ deadline' = deadline
               /\ UNCHANGED <<out, released>>
    /\ UNCHANGED <<notSession, authPage, fn, now, polled, defers>>

\* One turn of waitForLogin's loop up to its wait: loginDetected, then the
\* deadline test.
Poll ==
    /\ at = "poll"
    /\ LET hit == loginDetected(pages) IN
       /\ polled' = [n     |-> polled.n + 1,
                     t     |-> now,
                     gap   |-> IF polled.n = 0 THEN 0 ELSE now - polled.t,
                     found |-> IF hit THEN pages ELSE <<>>]
       /\ IF hit
          THEN /\ at' = IF fn = "BrowserLoginWithIntercept"
                        THEN "waitForAuthResponse" ELSE "waitForAuthStorage"
               /\ UNCHANGED <<out, released>>
          ELSE IF deadlinePassed(now, deadline)
          THEN SessionReturn("login timed out")
          ELSE at' = "sleep" /\ UNCHANGED <<out, released>>
    /\ UNCHANGED <<notSession, authPage, fn, now, deadline, pages, defers>>

\* page.WaitForTimeout(1000) in waitForLogin.
Sleep ==
    /\ at = "sleep"
    /\ now' = now + PollInterval
    /\ at' = "poll"
    /\ UNCHANGED <<notSession, authPage, fn, deadline, pages, polled, defers, released, out>>

\* The user and the site, while waitForLogin waits: pages navigate, a tab
\* opens or closes.
Browse ==
    /\ at = "sleep"
    /\ \E ps \in PageLists \ {pages} : pages' = ps
    /\ UNCHANGED <<notSession, authPage, fn, at, now, deadline, polled, defers, released, out>>

\* What the pages can be a while later: as they were, or the page navigated
\* elsewhere with the tab, if any, closed, or a tab opened or navigated.
PagesLater(ps) ==
    {ps} \cup {<<u>> : u \in URLs} \cup {<<ps[1], u>> : u \in URLs}

\* waitForAuthResponse: a payload arrives within the timeout and the function
\* returns finalizeAuthResult of it, or the timer fires; by then the user and
\* the site may have changed the pages.
AwaitAuthResponse ==
    /\ at = "waitForAuthResponse"
    /\ deadline' = AuthTimeout
    /\ \E arrived \in BOOLEAN :
          IF arrived
          THEN /\ \E d \in Delays(AuthTimeout) : now' = d
               /\ \E err \in {Nil, ErrExtract} : SessionReturn(err)
               /\ pages' = pages
          ELSE /\ now' = AuthTimeout
               /\ at' = "waitForAuthStorage"
               /\ \E ps \in PagesLater(pages) : pages' = ps
               /\ UNCHANGED <<out, released>>
    /\ UNCHANGED <<notSession, authPage, fn, polled, defers>>

\* findBringAppPage, then waitForAuthStorage: WaitForFunction returns when the
\* token is in storage or with an error at the timeout; the error is dropped.
AwaitAuthStorage ==
    /\ at = "waitForAuthStorage"
    /\ deadline' = StorageTimeout
    /\ \E d \in Delays(StorageTimeout) : now' = d
    /\ at' = "settle"
    /\ authPage' = <<findBringAppPage(pages)>>
    /\ UNCHANGED <<notSession, fn, pages, polled, defers, released, out>>

\* page.WaitForTimeout(1000) before the extraction.
Settle ==
    /\ at = "settle"
    /\ deadline' = PollInterval
    /\ now' = PollInterval
    /\ at' = "extract"
    /\ UNCHANGED <<notSession, authPage, fn, pages, polled, defers, released, out>>

\* return extractAuthFromStorage(authPage)
Extract ==
    /\ at = "extract"
    /\ \E err \in {Nil, ErrExtract, "evaluate failed"} : SessionReturn(err)
    /\ UNCHANGED <<notSession, authPage, fn, now, deadline, pages, polled, defers>>

\* The steps of the function itself.
SessionStep ==
    \/ StartEngine
    \/ LaunchContext
    \/ OpenPage
    \/ Navigate
    \/ Poll
    \/ Sleep
    \/ AwaitAuthResponse
    \/ AwaitAuthStorage
    \/ Settle
    \/ Extract

SessionNext == SessionStep \/ Browse

SessionSpec == SessionInit /\ [][SessionNext]_vars

\* Time advances and every browser call returns: the function always takes
\* its next step.
SessionFairSpec == SessionSpec /\ WF_vars(SessionStep)

\* -------------------------------------------- properties of the session

\* The URL's host is web.getbring.com.
OnBring(url) == Len(url) >= 2 /\ url[2] = BringHost

\* A page on web.getbring.com whose URL does not contain /login.
AppPage(url) == OnBring(url) /\ ~Contains(url, "/login")

LoginTimedOut == at = "returned" /\ out = <<"login timed out">>

\* How often a call appears among the engine and context calls made so far.
Calls(name) == Cardinality({i \in 1..Len(released) : released[i] = name})

\* The position of the first call of that name, 0 if there is none.
CallAt(name) ==
    IF Calls(name) = 0 THEN 0
    ELSE CHOOSE i \in 1..Len(released) :
            released[i] = name /\ \A j \in 1..(i - 1) : released[j] # name

\* C11: waitForLogin returns success only if the poll that ended it saw, among
\* the pages open in the browser context, a page on web.getbring.com whose
\* URL does not contain /login; consecutive polls are one second apart; and
\* it returns "login timed out" only when no poll saw such a page and the
\* timeout has elapsed, the last poll being the one it returned from.
C11_LoginDetectedByPolling ==
    /\ polled.found # <<>> =>
          \E i \in 1..Len(polled.found) : AppPage(polled.found[i])
    /\ polled.n >= 2 => polled.gap = PollInterval
    /\ LoginTimedOut =>
          /\ polled.found = <<>>
          /\ now > deadline
          /\ polled.t = now

\* C12: under the assumption that time advances and every browser call
\* returns, the login function returns, and in every blocking stage the clock
\* never passes the stage's deadline by more than one polling interval.
C12_Terminates ==
    /\ <>(at = "returned")
    /\ [](now <= deadline + PollInterval)

\* The login poll gave up one polling interval after its deadline.
C12_Witness ==
    /\ LoginTimedOut
    /\ fn = "BrowserLoginWithIntercept"
    /\ now = LoginTimeout + PollInterval

\* C13: when BrowserLogin or BrowserLoginWithIntercept has returned, the
\* engine, if it was started, has been stopped exactly once and the persistent
\* context, if it was launched, has been closed exactly once and before the
\* engine was stopped; nothing is released that was not acquired.
C13_ResourcesReleased ==
    /\ Calls("pw.Stop") <= Calls("playwright.Run")
    /\ Calls("browserContext.Close") <= Calls("LaunchPersistentContext")
    /\ at = "returned" =>
          /\ Calls("pw.Stop") = Calls("playwright.Run")
          /\ Calls("browserContext.Close") = Calls("LaunchPersistentContext")
          /\ Calls("browserContext.Close") = 1 =>
                CallAt("browserContext.Close") < CallAt("pw.Stop")

\* Both functions return from a login timeout with the context closed and
\* then the engine stopped; an early error return stops the engine alone.
C13_Witness ==
    /\ LoginTimedOut
    /\ fn = "BrowserLogin"
    /\ released = <<"playwright.Run", "LaunchPersistentContext",
                    "browserContext.Close", "pw.Stop">>

\* ------------------------------------------------- the storage extractor

\* extractAuthFromStorage has run and the function returned what it returned.
Extracted == Returned /\ storageRead # <<>>

\* C15 as stated: the storage extractor never fails; whatever the page's
\* storage holds and whatever the in-page evaluation does, it returns a
\* (partial) credential and no error.
C15_ExtractorNeverFails == Extracted => ret[1].err = Nil

\* C15: the storage extractor returns either an error with the empty
\* credential or a credential with a non-empty access token; it fails when
\* the evaluation of the canonical keys fails or gives a non-string, and with
\* "failed to extract authentication data" when the storage holds no token.
C15_ExtractorFailsOrHasToken ==
    Extracted =>
        /\ ret[1].err # Nil => ret[1].result = ZeroResult
        /\ ret[1].err = Nil => ret[1].result.AccessToken # Empty
        /\ storageRead[1].eval = "err" => ret[1].err = "evaluate failed"
        /\ storageRead[1].eval = "nonstring" =>
              ret[1].err = "unexpected localStorage result"
        /\ (storageRead[1].eval = "ok" /\ storageRead[1].storage = NoStorage) =>
              ret[1].err = ErrExtract

\* The extractor failed on a page whose storage holds a complete credential,
\* because the evaluation failed.
C15_Witness ==
    /\ Extracted
    /\ storageRead[1].eval = "err"
    /\ storageRead[1].storage # NoStorage
    /\ ret[1].err = "evaluate failed"

\* ============================================== decodeJWT and token expiry

\* loginCommand: decoded.Exp > 0 && time.Unix(decoded.Exp, 0).Before(time.Now())
loginTokenExpired(exp, t) == exp > 0 /\ exp < t

\* statusCommand: err == nil && decoded.Exp > 0, then exp.Before(time.Now())
statusTokenExpired(exp, t) == exp > 0 /\ exp < t

\* The claims segments of the tokens: base64url of JSON objects, of other
\* JSON, of text that is no JSON, text that is no base64url, nothing.
ObjectSegments ==
    {<<"eyJzdWIiOiJBOkI6QzppZC0xMjMiLCJleHAiOjE3MDB9">>,
     <<"eyJzdWIiOiJBOkI6QzoifQ">>,
     <<"eyJzdWIiOiJpZC05In0">>,
     <<"eyJleHAiOjE3MDB9">>,
     <<"eyJzdWIiOiIifQ">>,
     <<"eyJzdWIiOjQyfQ">>,
     <<"eyJzdWIiOiJBOkI6QzppZC0xMjMiLCJlbWFpbCI6ImFAeCIsImV4cCI6MTYxMDB9">>,
     <<"eyJzdWIiOiJBOkI6QzppZC0xMjMiLCJleHAiOjB9">>,
     <<"eyJzdWIiOiJBOkI6QzppZC0xMjMiLCJleHAiOi0xfQ">>,
     <<"eyJzdWIiOiJBOkI6QzppZC0xMjMiLCJleHAiOjg5MDB9">>,
     <<"eyJzdWIiOiJBOkI6QzppZC0xMjMiLCJleHAiOiIxNzAwIn0">>,
     <<"eyJzdWIiOiJBOkI6QzppZC0xMjMiLCJleHAiOiJzb29uIn0">>}

OtherSegments == {<<"WzFd">>, <<"bm90IGpzb24">>, <<"!!">>, <<>>}

\* The tokens given to decodeJWT: every claims segment between a header and a
\* signature that may be empty or no base64url at all, and texts with fewer or
\* more than three segments.
JwtTokens ==
    {h \o <<".">> \o m \o <<".">> \o sg :
        h \in {<<Hdr>>, <<"x">>, <<>>},
        m \in ObjectSegments \cup OtherSegments,
        sg \in {<<"sig">>, <<>>}}
    \cup {TokOpaque, TokTwoParts, TokFourParts, <<>>, <<".">>, <<"not-a-jwt">>}

\* time.Now(): around the tokens' exp of 1700, and 7200 s after it.
JwtTimes == {1699, 1700, 1701, 8900}

JwtInit ==
    /\ PipelineIdle
    /\ SessionIdle
    /\ CliIdle
    /\ ClientIdle
    /\ ScanIdle
    /\ jwtToken \in JwtTokens
    /\ jwtNow \in JwtTimes
    /\ jwtOut = <<>>
    /\ jwtExpired = <<>>

DecodeJWT ==
    /\ jwtOut = <<>>
    /\ jwtOut' = <<decodeJWT(jwtToken)>>
    /\ UNCHANGED <<notJwt, jwtToken, jwtNow, jwtExpired>>

\* The expiry tests of loginCommand and statusCommand on the decoded claims.
ExpiryTests ==
    /\ jwtOut # <<>>
    /\ jwtOut[1].err = Nil
    /\ jwtExpired = <<>>
    /\ jwtExpired' =
          <<[login  |-> loginTokenExpired(jwtOut[1].claims.Exp, jwtNow),
             status |-> statusTokenExpired(jwtOut[1].claims.Exp, jwtNow)]>>
    /\ UNCHANGED <<notJwt, jwtToken, jwtNow, jwtOut>>

JwtNext == DecodeJWT \/ ExpiryTests

JwtSpec == JwtInit /\ [][JwtNext]_vars

\* --------------------------------------------------- properties of decodeJWT

\* The number of dots of a token: one less than its number of segments.
Dots(tok) == Cardinality({i \in 1..Len(tok) : tok[i] = "."})

\* The text between the first and the second dot.
MiddleOf(tok) ==
    LET dots == {i \in 1..Len(tok) : tok[i] = "."}
        d1 == CHOOSE i \in dots : \A j \in dots : i <= j
        d2 == CHOOSE i \in dots \ {d1} : \A j \in dots \ {d1} : i <= j
    IN  SubSeq(tok, d1 + 1, d2 - 1)

\* The claims a segment holds, read off its JSON text.
ClaimsIn(m) ==
    CASE m = <<"eyJzdWIiOiJBOkI6QzppZC0xMjMiLCJleHAiOjE3MDB9">>
            -> [Sub |-> SubFull, Email |-> Empty, Exp |-> 1700]
      [] m = <<"eyJzdWIiOiJBOkI6QzoifQ">>
            -> [Sub |-> SubColon, Email |-> Empty, Exp |-> 0]
      [] m = <<"eyJzdWIiOiJpZC05In0">>
            -> [Sub |-> SubShort, Email |-> Empty, Exp |-> 0]
      [] m = <<"eyJleHAiOjE3MDB9">>
            -> [Sub |-> Empty, Email |-> Empty, Exp |-> 1700]
      [] m = <<"eyJzdWIiOiIifQ">>
            -> [Sub |-> Empty, Email |-> Empty, Exp |-> 0]
      [] m = <<"eyJzdWIiOjQyfQ">>
            -> [Sub |-> Empty, Email |-> Empty, Exp |-> 0]
      [] m = <<"eyJzdWIiOiJBOkI6QzppZC0xMjMiLCJlbWFpbCI6ImFAeCIsImV4cCI6MTYxMDB9">>
            -> [Sub |-> SubFull, Email |-> <<"a@x">>, Exp |-> 16100]
      [] m = <<"eyJzdWIiOiJBOkI6QzppZC0xMjMiLCJleHAiOjB9">>
            -> [Sub |-> SubFull, Email |-> Empty, Exp |-> 0]
      [] m = <<"eyJzdWIiOiJBOkI6QzppZC0xMjMiLCJleHAiOi0xfQ">>
            -> [Sub |-> SubFull, Email |-> Empty, Exp |-> -1]
      [] m = <<"eyJzdWIiOiJBOkI6QzppZC0xMjMiLCJleHAiOjg5MDB9">>
            -> [Sub |-> SubFull, Email |-> Empty, Exp |-> 8900]
      [] m = <<"eyJzdWIiOiJBOkI6QzppZC0xMjMiLCJleHAiOiIxNzAwIn0">>
            -> [Sub |-> SubFull, Email |-> Empty, Exp |-> 1700]
      [] m = <<"eyJzdWIiOiJBOkI6QzppZC0xMjMiLCJleHAiOiJzb29uIn0">>
            -> [Sub |-> SubFull, Email |-> Empty, Exp |-> 0]

\* C16: decodeJWT returns an error for every token that does not have exactly
\* three dot-separated segments; for a token of three segments whose middle
\* one is the unpadded base64url of a JSON object it returns no error and that
\* object's sub and email strings and its exp as an integer, whatever the
\* first and the third segment are.
C16_DecodeJWT ==
    jwtOut # <<>> =>
        /\ Dots(jwtToken) # 2 => jwtOut[1].err # Nil
        /\ (Dots(jwtToken) = 2 /\ MiddleOf(jwtToken) \in ObjectSegments) =>
              jwtOut[1] = [claims |-> ClaimsIn(MiddleOf(jwtToken)), err |-> Nil]

\* A token with a header that is no base64url and an empty signature decoded
\* to its sub, email and exp.
C16_Witness ==
    /\ jwtOut # <<>>
    /\ Len(jwtToken) = 4
    /\ jwtToken[1] = "x"
    /\ jwtOut[1].err = Nil
    /\ jwtOut[1].claims = [Sub |-> SubFull, Email |-> <<"a@x">>, Exp |-> 16100]

\* C17: the expiry tests of login --token and of status hold a token to be
\* expired exactly when its exp is nonzero (0 stands for an absent exp too)
\* and strictly less than the current time, negative values of exp included.
C17_ExpiredIffBelowNow ==
    jwtExpired # <<>> =>
        LET exp == jwtOut[1].claims.Exp
            expired == exp # 0 /\ exp < jwtNow
        IN  /\ jwtExpired[1].login = expired
            /\ jwtExpired[1].status = expired

\* ================================================== the command line program

\* An error of the command line program is its text; no error is no text.
NoErr == <<>>

\* ---------------------------------------------------------- the API client

\* The body of an HTTP response: whether it is JSON, the "error", "message"
\* and "error_description" members of the JSON object (ErrorResponse), and the
\* data the operation decodes from it (<<>>: none).
DataBody(data) ==
    [json |-> TRUE, error |-> Empty, message |-> Empty,
     error_description |-> Empty, data |-> data]

ErrorBody(error, message) ==
    [json |-> TRUE, error |-> error, message |-> message,
     error_description |-> Empty, data |-> <<>>]

EmptyBody ==
    [json |-> FALSE, error |-> Empty, message |-> Empty,
     error_description |-> Empty, data |-> <<>>]

\* The responses of a failing server: an error payload with status 401, an
\* error payload with status 200, status 500 with an empty body, status 404
\* with a JSON body that has a message and no "error" member.
Failures ==
    {[status |-> 401, body |-> ErrorBody(<<"invalid_token">>, <<"Token expired">>)],
     [status |-> 200, body |-> ErrorBody(<<"invalid_item">>, <<"Item name not allowed">>)],
     [status |-> 500, body |-> EmptyBody],
     [status |-> 404, body |-> ErrorBody(Empty, <<"Not Found">>)]}

OK(data) == [status |-> 200, body |-> DataBody(data)]

\* decodeError(body)
decodeError(body) ==
    IF ~body.json \/ body.error = Empty THEN NoErr
    ELSE IF body.message # Empty THEN body.message
    ELSE IF body.error_description # Empty THEN body.error_description
    ELSE body.error

\* fmt.Errorf("http %d", resp.StatusCode)
HTTPError(status) ==
    CASE status = 401 -> <<"http 401">>
      [] status = 404 -> <<"http 404">>
      [] status = 500 -> <<"http 500">>
      [] OTHER -> <<"http">>

\* The error of b.doRequest for a response.
doRequest(resp) ==
    IF resp.status >= 400
    THEN IF decodeError(resp.body) # NoErr
         THEN decodeError(resp.body)
         ELSE HTTPError(resp.status)
    ELSE NoErr

\* A client operation built on doRequest (LoadLists, GetItems, SaveItem, ...):
\* the request, then decodeJSON or decodeError on the body; the error is
\* wrapped in the operation's "cannot ..." text.
Request(op, resp) ==
    LET err == IF doRequest(resp) # NoErr THEN doRequest(resp)
               ELSE decodeError(resp.body)
    IN  IF err # NoErr
        THEN [err |-> <<"cannot ", op, ": ">> \o err, data |-> <<>>]
        ELSE [err |-> NoErr, data |-> resp.body.data]

\* LoadCatalog reads the body whatever the status is: decodeError, then
\* json.Unmarshal.
LoadCatalog(resp) ==
    IF decodeError(resp.body) # NoErr
    THEN [err |-> <<"cannot get catalog: ">> \o decodeError(resp.body), data |-> <<>>]
    ELSE IF ~resp.body.json
    THEN [err |-> <<"cannot get catalog: ", "unexpected end of JSON input">>,
          data |-> <<>>]
    ELSE [err |-> NoErr, data |-> resp.body.data]

\* ------------------------------------------------------------ the commands

\* Saved configurations: no file, a complete login, and files that lack one of
\* the two credentials.
LoggedIn ==
    [ZeroConfig EXCEPT !.AccessToken = <<"saved-token">>,
                       !.UserUUID = <<"saved-user">>,
                       !.UserName = <<"Saved">>]

SavedConfigs ==
    {ZeroConfig, LoggedIn,
     [ZeroConfig EXCEPT !.AccessToken = <<"saved-token">>],
     [ZeroConfig EXCEPT !.UserUUID = <<"saved-user">>]}

\* The shopping lists of the account.
Groceries == [listUuid |-> <<"list-1">>, name |-> <<"Groceries">>]
Party == [listUuid |-> <<"list-2">>, name |-> <<"Party">>]

\* The values of --list: absent, or a list uuid.
ListArgs == {Empty, <<"list-7">>}

\* The positional arguments of a command: none, an item or recipe, a
\* notification type.
Positionals == {<<>>, <<"Milk">>, <<"GOING_SHOPPING">>}

\* What the server answers to the load-lists request, and to any other.
ListsResponses ==
    {OK(<<>>), OK(<<Groceries>>), OK(<<Groceries, Party>>)} \cup Failures

OpResponses == {OK(<<"data">>)} \cup Failures

\* The commands Run dispatches to a handler that talks to the API.
APICommands ==
    {"lists", "items", "add", "remove", "rm", "complete", "done", "activity",
     "users", "account", "settings", "catalog", "add-recipe", "recipe",
     "inspirations", "notify"}

\* The handler of a command (Run's switch: rm and done are aliases).
Handler(command) ==
    CASE command = "rm" -> "remove"
      [] command = "done" -> "complete"
      [] OTHER -> command

\* The handlers that select a list with getListUUID.
ListCommands ==
    {"items", "add", "remove", "complete", "activity", "users", "add-recipe",
     "notify"}

\* The handlers that call GetInspirationDetails first.
RecipeCommands == {"add-recipe", "recipe"}

\* A credential failure of the mutant kind: only the token is looked at.
getBringClientTokenOnly(c) ==
    c.AccessToken # Empty

\* getBringClient(): whether the saved config has both credentials.
getBringClient(c) ==
    ~(c.AccessToken = Empty \/ c.UserUUID = Empty)

NotLoggedIn == "Not logged in. Run brings login first."

NoListsFound == "no shopping lists found"

\* One request as the server saw it: the operation, the list (or token) it
\* names, the response.
Call(op, arg, resp) == [op |-> op, arg |-> arg, resp |-> resp]

\* getListUUID taking the last list returned.
getListUUIDLast(listArg, resp) ==
    IF listArg # Empty
    THEN [uuid |-> listArg, name |-> listArg, err |-> NoErr, calls |-> <<>>]
    ELSE LET lists == Request("LoadLists", resp)
             sent == <<Call("LoadLists", Empty, resp)>>
         IN  IF lists.err # NoErr
             THEN [uuid |-> Empty, name |-> Empty, err |-> lists.err, calls |-> sent]
             ELSE IF Len(lists.data) = 0
             THEN [uuid |-> Empty, name |-> Empty, err |-> <<NoListsFound>>,
                   calls |-> sent]
             ELSE [uuid |-> lists.data[Len(lists.data)].listUuid,
                   name |-> lists.data[Len(lists.data)].name,
                   err |-> NoErr, calls |-> sent]

\* getListUUID(client, listArg): the list named by --list, else the first
\* list the server returns.
getListUUID(listArg, resp) ==
    IF listArg # Empty
    THEN [uuid |-> listArg, name |-> listArg, err |-> NoErr, calls |-> <<>>]
    ELSE LET lists == Request("LoadLists", resp)
             sent == <<Call("LoadLists", Empty, resp)>>
         IN  IF lists.err # NoErr
             THEN [uuid |-> Empty, name |-> Empty, err |-> lists.err, calls |-> sent]
             ELSE IF Len(lists.data) = 0
             THEN [uuid |-> Empty, name |-> Empty, err |-> <<NoListsFound>>,
                   calls |-> sent]
             ELSE [uuid |-> lists.data[1].listUuid, name |-> lists.data[1].name,
                   err |-> NoErr, calls |-> sent]

NotifyTypes == {"GOING_SHOPPING", "CHANGED_LIST", "SHOPPING_DONE", "URGENT_MESSAGE"}

\* Whether a handler rejects its positional arguments with a usage text.
UsageError(handler, positional) ==
    \/ /\ handler \in {"add", "remove", "complete", "add-recipe", "recipe"}
       /\ Len(positional) = 0
    \/ /\ handler = "notify"
       /\ (Len(positional) = 0 \/ positional[1] \notin NotifyTypes)

\* The client operation a handler is about.
Operation(handler, flags) ==
    CASE handler = "lists" -> "LoadLists"
      [] handler = "items" -> "GetItems"
      [] handler = "add" -> "SaveItem"
      [] handler = "remove" -> "RemoveItem"
      [] handler = "complete" -> "MoveToRecentList"
      [] handler = "activity" -> "GetActivity"
      [] handler = "users" -> "GetAllUsersFromList"
      [] handler = "account" -> "GetUserAccount"
      [] handler = "settings" -> "GetUserSettings"
      [] handler = "catalog" -> "LoadCatalog"
      [] handler = "add-recipe" -> "BatchUpdateItems"
      [] handler = "recipe" -> "GetInspirationDetails"
      [] handler = "inspirations" ->
            IF flags.filters THEN "GetInspirationFilters" ELSE "GetInspirations"
      [] handler = "notify" -> "Notify"

\* What a handler prints between selecting the list and its operation.
Header(handler, flags, name) ==
    CASE handler = "items" /\ flags.list = Empty -> <<"List: ">> \o name
      [] handler = "activity" -> <<"Activity for: ">> \o name
      [] handler = "users" -> <<"Users in: ">> \o name
      [] OTHER -> <<>>

\* The outcome of a handler: the requests it sent, what it printed, its
\* return value.
Outcome(sent, printed, errors, code) ==
    [calls |-> sent, stdout |-> printed, stderr |-> errors, exit |-> code]

Fails(sent, printed, err) ==
    Outcome(sent, printed, <<"Error: ">> \o err, 1)

\* The handler of an API command, from getBringClient to its return: srv is
\* what the server answers to the recipe request, the load-lists request and
\* the handler's operation.
apiCommand(handler, positional, flags, c, srv) ==
    IF ~getBringClient(c) THEN Outcome(<<>>, <<>>, <<NotLoggedIn>>, 1)
    ELSE IF UsageError(handler, positional)
    THEN Outcome(<<>>, <<>>, <<"Usage: brings ", handler>>, 1)
    ELSE
    LET recipe == Request("GetInspirationDetails", srv.details)
        asked == IF handler \in RecipeCommands
                 THEN <<Call("GetInspirationDetails", Empty, srv.details)>>
                 ELSE <<>>
    IN
    IF handler \in RecipeCommands /\ recipe.err # NoErr
    THEN Fails(asked, <<>>, recipe.err)
    ELSE IF handler = "recipe"
    THEN Outcome(asked, <<"Recipe">>, <<>>, 0)
    ELSE
    LET sel == IF handler \in ListCommands
               THEN getListUUID(flags.list, srv.lists)
               ELSE [uuid |-> Empty, name |-> Empty, err |-> NoErr, calls |-> <<>>]
        selected == asked \o sel.calls
        header == Header(handler, flags, sel.name)
        op == Operation(handler, flags)
        resp == IF handler = "lists" THEN srv.lists ELSE srv.op
        result == IF handler = "catalog" THEN LoadCatalog(resp)
                  ELSE Request(op, resp)
        done == selected \o <<Call(op, sel.uuid, resp)>>
    IN
    IF sel.err # NoErr THEN Fails(selected, <<>>, sel.err)
    ELSE IF handler = "add-recipe" /\ recipe.data = <<>>
    THEN Outcome(selected, <<>>, <<"Recipe has no ingredients">>, 1)
    ELSE IF result.err # NoErr THEN Fails(done, header, result.err)
    ELSE Outcome(done, header \o <<"Done: ", handler>>, <<>>, 0)

\* ------------------------------------------------------------ loginCommand

\* coalesce(values...): the first non-empty string.
RECURSIVE coalesce(_)
coalesce(values) ==
    IF values = <<>> THEN Empty
    ELSE IF Head(values) # Empty THEN Head(values)
    ELSE coalesce(Tail(values))

\* GetUserAccountResponse, as decoded from the body of the account request.
ZeroAccount ==
    [UserUUID |-> Empty, PublicUserUUID |-> Empty, Name |-> Empty, Email |-> Empty]

Tester ==
    [UserUUID |-> <<"id-123">>, PublicUserUUID |-> <<"public-uuid">>,
     Name |-> <<"Tester">>, Email |-> <<"test@example.com">>]

AccountResponses == {OK(Tester), OK(ZeroAccount)} \cup Failures

AccountOf(data) == IF data = <<>> THEN ZeroAccount ELSE data

\* A token whose exp claim is -1, and one without exp.
TokNegativeExp ==
    <<Hdr, ".", "eyJzdWIiOiJBOkI6QzppZC0xMjMiLCJleHAiOi0xfQ", ".", "sig">>

\* The texts given as --token or typed at the prompt.
LoginTokens ==
    {Empty, TokFull, TokNegativeExp, TokShort, TokEmptySub, TokNotJSON, TokOpaque}

\* time.Now() when Run is called: before and after TokFull's exp of 1700.
Today == {1699, 8900}

\* What BrowserLoginWithIntercept hands to loginCommand: an error of the
\* login, or what finalizeAuthResult makes of the gathered fields.
BrowserOutcomes ==
    {[result |-> ZeroResult, err |-> "login timed out"]}
    \cup {finalizeAuthResult(r) :
            r \in {ZeroResult,
                   [ZeroResult EXCEPT !.AccessToken = TokFull],
                   [ZeroResult EXCEPT !.AccessToken = TokColon],
                   [ZeroResult EXCEPT !.AccessToken = TokOpaque,
                                      !.UserUUID = <<"id-123">>,
                                      !.UserName = <<"Ann">>]}}

\* What os.WriteFile does to the config file.
Writes == {"ok", "failed", "truncated"}

LoginOutcome(sent, printed, errors, code, config) ==
    [calls |-> sent, stdout |-> printed, stderr |-> errors, exit |-> code,
     config |-> config]

\* The end of both login flows: the account request made with the acquired
\* credential, then saveConfig of a new Config.
validateAndSave(result, c, srv, sent, printed) ==
    LET account == Request("GetUserAccount", srv.account)
        a == AccountOf(account.data)
        asked == sent \o <<Call("GetUserAccount", result.AccessToken, srv.account)>>
        saved == asked \o <<Call("saveConfig", result.AccessToken, srv.write)>>
        progress == printed \o <<"Validating token...">>
        config == [ZeroConfig EXCEPT
                      !.AccessToken = result.AccessToken,
                      !.UserUUID = a.UserUUID,
                      !.PublicUserUUID = a.PublicUserUUID,
                      !.UserName = coalesce(<<a.Name, result.UserName>>),
                      !.Email = coalesce(<<a.Email, result.Email>>)]
    IN  IF account.err # NoErr
        THEN LoginOutcome(asked, progress,
                          <<"Error: Failed to validate token - ">> \o account.err,
                          1, c)
        ELSE IF srv.write # "ok"
        THEN LoginOutcome(saved, progress, <<"Error saving config: ", srv.write>>, 1,
                          IF srv.write = "truncated" THEN ZeroConfig ELSE c)
        ELSE LoginOutcome(saved,
                          progress \o <<"Logged in as ">> \o coalesce(<<a.Name, a.Email>>),
                          <<>>, 0, config)

\* loginCommand(flags) at time t with the saved config c; srv is what the
\* browser login, the prompt, the account request and the file write answer.
loginCommand(flags, c, t, srv) ==
    IF flags.browser
    THEN LET sent == <<Call("BrowserLoginWithIntercept", Empty, srv.browser)>> IN
         IF srv.browser.err # Nil
         THEN LoginOutcome(sent, <<>>,
                           <<"Error: Browser login failed - ", srv.browser.err>>, 1, c)
         ELSE validateAndSave(srv.browser.result, c, srv, sent, <<>>)
    ELSE
    LET prompted == flags.token = Empty
        sent == IF prompted THEN <<Call("prompt", Empty, srv.entered)>> ELSE <<>>
        printed == IF prompted THEN <<"To login", "Paste your access token: ">> ELSE <<>>
        token == IF prompted THEN srv.entered.text ELSE flags.token
        decoded == decodeJWT(token)
    IN
    IF prompted /\ srv.entered.err # NoErr
    THEN LoginOutcome(sent, printed, <<"Error: ">> \o srv.entered.err, 1, c)
    ELSE IF token = Empty
    THEN LoginOutcome(sent, printed, <<"Error: No token provided">>, 1, c)
    ELSE IF decoded.err # Nil
    THEN LoginOutcome(sent, printed, <<"Error: Invalid token format">>, 1, c)
    ELSE IF decoded.claims.Sub = Empty
    THEN LoginOutcome(sent, printed, <<"Error: Token missing user identifier">>, 1, c)
    ELSE IF loginTokenExpired(decoded.claims.Exp, t)
    THEN LoginOutcome(sent, printed, <<"Error: Token has expired">>, 1, c)
    ELSE validateAndSave([ZeroResult EXCEPT
                             !.AccessToken = token,
                             !.UserUUID = Split(decoded.claims.Sub, ":")
                                             [Len(Split(decoded.claims.Sub, ":"))]],
                         c, srv, sent, printed)

\* ----------------------------------------------------------- configCommand

\* strconv.Atoi for the arguments of the model.
Atoi(arg) ==
    CASE arg = "4" -> [num |-> 4, err |-> Nil]
      [] arg = "0" -> [num |-> 0, err |-> Nil]
      [] OTHER -> [num |-> 0, err |-> "invalid syntax"]

\* The string of a command line argument.
Text(arg) == IF arg = "" THEN Empty ELSE <<arg>>

ConfigKeys == {"servings", "defaultList", "locale", "colour"}

\* The arguments of config: none, a key, a key and a value.
ConfigArgs ==
    {<<>>} \cup {<<k>> : k \in ConfigKeys}
    \cup {<<k, v>> : k \in ConfigKeys, v \in {"4", "0", "list-9", ""}}

\* configCommand(positional) with the saved config c.
configCommand(positional, c, write) ==
    IF Len(positional) = 0
    THEN LoginOutcome(<<>>, <<"Configuration:">>, <<>>, 0, c)
    ELSE IF Len(positional) = 1
    THEN IF positional[1] \in {"servings", "defaultList", "locale"}
         THEN LoginOutcome(<<>>, <<positional[1], ": ">>, <<>>, 0, c)
         ELSE LoginOutcome(<<>>, <<>>, <<"Unknown config key: ", positional[1]>>, 1, c)
    ELSE
    LET key == positional[1]
        value == positional[2]
        saved == <<Call("saveConfig", Text(value), write)>>
        config == CASE key = "servings" -> [c EXCEPT !.Servings = Atoi(value).num]
                    [] key = "defaultList" -> [c EXCEPT !.DefaultList = Text(value)]
                    [] OTHER -> [c EXCEPT !.Locale = Text(value)]
    IN
    IF value = ""
    THEN LoginOutcome(<<>>, <<>>, <<"Unknown config key: ", key>>, 1, c)
    ELSE IF key = "servings" /\ (Atoi(value).err # Nil \/ Atoi(value).num < 1)
    THEN LoginOutcome(<<>>, <<>>, <<"servings must be a positive number">>, 1, c)
    ELSE IF key \notin {"servings", "defaultList", "locale"}
    THEN LoginOutcome(<<>>, <<>>, <<"Unknown config key: ", key>>, 1, c)
    ELSE IF write # "ok"
    THEN LoginOutcome(saved, <<>>, <<"Error saving config: ", write>>, 1,
                      IF write = "truncated" THEN ZeroConfig ELSE c)
    ELSE LoginOutcome(saved, <<"Set ", key, " = ", value>>, <<>>, 0, config)

\* ---------------------------------------------------------------- Run

Flags(list, help, filters, browser, token) ==
    [list |-> list, help |-> help, filters |-> filters, browser |-> browser,
     token |-> token]

Commands == APICommands \cup {"login", "help"}

\* One process: the config file as it was saved, the clock, nothing run yet.
CliInit ==
    /\ PipelineIdle
    /\ SessionIdle
    /\ JwtIdle
    /\ ClientIdle
    /\ ScanIdle
    /\ cfg \in SavedConfigs
    /\ cfg0 = cfg
    /\ argv = <<>>
    /\ today \in Today
    /\ calls = <<>>
    /\ stdout = <<>>
    /\ stderr = <<>>
    /\ exit = <<>>

\* A process can start when none has run yet, and once more after a login or
\* a config that rewrote one of the saved configurations.
Ready ==
    \/ exit = <<>>
    \/ /\ exit = <<0>>
       /\ argv[1].command \in {"login", "config"}
       /\ cfg # cfg0
       /\ cfg0 \in SavedConfigs

\* Run returns: its arguments, its requests, its output, its return value and
\* the config file it leaves.
RunReturns(command, positional, flags, o, config) ==
    /\ argv' = <<[command |-> command, positional |-> positional, flags |-> flags]>>
    /\ calls' = o.calls
    /\ stdout' = o.stdout
    /\ stderr' = o.stderr
    /\ exit' = <<o.exit>>
    /\ cfg0' = cfg
    /\ cfg' = config
    /\ UNCHANGED <<notCli, today>>

\* Run with --help, -h or the help command: showHelp, before any handler.
RunHelp ==
    /\ Ready
    /\ \E command \in Commands, positional \in Positionals, list \in ListArgs,
          help \in BOOLEAN :
          /\ help \/ command = "help"
          /\ RunReturns(command, positional,
                        Flags(list, help, FALSE, FALSE, Empty),
                        Outcome(<<>>, <<"Usage: brings <command>">>, <<>>, 0), cfg)

\* Run of a command that talks to the API.  The server's answers are drawn
\* for the requests the command can make.
RunAPICommand ==
    /\ Ready
    /\ \E command \in APICommands, positional \in Positionals, list \in ListArgs,
          filters \in BOOLEAN :
       \E details \in IF Handler(command) \in RecipeCommands
                      THEN OpResponses \cup {OK(<<>>)} ELSE {OK(<<>>)},
          lists \in IF Handler(command) \in ListCommands \cup {"lists"}
                    THEN ListsResponses ELSE {OK(<<>>)},
          op \in OpResponses :
          /\ filters => command = "inspirations"
          /\ RunReturns(command, positional,
                        Flags(list, FALSE, filters, FALSE, Empty),
                        apiCommand(Handler(command), positional,
                                   Flags(list, FALSE, filters, FALSE, Empty), cfg,
                                   [details |-> details, lists |-> lists, op |-> op]),
                        cfg)

\* Run of login, with --browser or with a token given or typed.  The
\* answers are drawn for what the flow asks: the browser, or the prompt when
\* no --token is given.
RunLogin ==
    /\ Ready
    /\ \E browser \in BOOLEAN, token \in LoginTokens,
          account \in AccountResponses, write \in Writes :
       \E outcome \in IF browser THEN BrowserOutcomes
                      ELSE {[result |-> ZeroResult, err |-> Nil]},
          entered \in IF ~browser /\ token = Empty
                      THEN {[text |-> k, err |-> NoErr] : k \in LoginTokens}
                           \cup {[text |-> Empty, err |-> <<"EOF">>]}
                      ELSE {[text |-> Empty, err |-> NoErr]} :
          /\ browser => token = Empty
          /\ LET flags == Flags(Empty, FALSE, FALSE, browser, token)
                 o == loginCommand(flags, cfg, today,
                                   [browser |-> outcome, entered |-> entered,
                                    account |-> account, write |-> write])
             IN  RunReturns("login", <<>>, flags,
                         Outcome(o.calls, o.stdout, o.stderr, o.exit), o.config)

\* Run of config: show the settings, show one, or set one.
RunConfig ==
    /\ Ready
    /\ \E positional \in ConfigArgs, write \in Writes :
          LET o == configCommand(positional, cfg, write)
          IN  RunReturns("config", positional,
                         Flags(Empty, FALSE, FALSE, FALSE, Empty),
                         Outcome(o.calls, o.stdout, o.stderr, o.exit), o.config)

CliNext == RunHelp \/ RunAPICommand \/ RunLogin \/ RunConfig

CliSpec == CliInit /\ [][CliNext]_vars

\* ------------------------------------------------- properties of the commands

\* Run has returned from the handler of an API command (no --help).
APICommandRan ==
    /\ exit # <<>>
    /\ argv[1].command \in APICommands
    /\ ~argv[1].flags.help

\* The text is part of what was written.
Wrote(output, text) == \E i \in DOMAIN output : output[i] = text

\* The request succeeded: no error status and no error payload.
CallOK(call) ==
    /\ doRequest(call.resp) = NoErr
    /\ decodeError(call.resp.body) = NoErr

\* C18: when an API command runs and the saved config lacks the access token
\* or the user UUID, Run returns non-zero, writes 'Not logged in' to stderr,
\* nothing to stdout, and sends no request.  (With --help Run shows the help
\* text before any command is dispatched.)
C18_NotLoggedIn ==
    (APICommandRan /\ (cfg0.AccessToken = Empty \/ cfg0.UserUUID = Empty))
        => /\ exit[1] # 0
           /\ Wrote(stderr, NotLoggedIn)
           /\ stdout = <<>>
           /\ calls = <<>>

\* add-recipe with a recipe and a list, a saved token and no saved user UUID.
C18_Witness ==
    /\ APICommandRan
    /\ argv[1].command = "add-recipe"
    /\ argv[1].positional = <<"Milk">>
    /\ argv[1].flags.list = <<"list-7">>
    /\ cfg0.AccessToken # Empty
    /\ cfg0.UserUUID = Empty
    /\ stderr = <<NotLoggedIn>>
    /\ exit = <<1>>

\* The server's error message is part of what was written to stderr.
WroteMessage(call) ==
    \A i \in DOMAIN decodeError(call.resp.body) :
        Wrote(stderr, decodeError(call.resp.body)[i])

\* The request failed: an HTTP error status or an error payload.
CallFailed(call) ==
    \/ call.resp.status >= 400
    \/ decodeError(call.resp.body) # NoErr

\* C19: when a request made by an API command fails (HTTP error status or
\* error payload), Run returns non-zero, stderr contains the server's error
\* message, and nothing has been written to stdout.
C19_APIFailure ==
    APICommandRan =>
        \A i \in DOMAIN calls :
            CallFailed(calls[i])
                => /\ exit[1] # 0
                   /\ WroteMessage(calls[i])
                   /\ stdout = <<>>

\* The list command reached its list selection: logged in, arguments
\* accepted, and for add-recipe the recipe was fetched.
ListCommandRan ==
    /\ APICommandRan
    /\ Handler(argv[1].command) \in ListCommands
    /\ getBringClient(cfg0)
    /\ ~UsageError(Handler(argv[1].command), argv[1].positional)
    /\ Handler(argv[1].command) = "add-recipe" => CallOK(calls[1])

LoadListsCalls == {i \in DOMAIN calls : calls[i].op = "LoadLists"}

\* The requests of a list command that name a list.
ListCalls ==
    {i \in DOMAIN calls : calls[i].op \notin {"LoadLists", "GetInspirationDetails"}}

\* The command operates on the list: its requests about a list name this one,
\* and it makes such a request (add-recipe makes none for a recipe without
\* ingredients).
OperatesOn(uuid) ==
    /\ \A i \in ListCalls : calls[i].arg = uuid
    /\ ListCalls = {} =>
          /\ Handler(argv[1].command) = "add-recipe"
          /\ calls[1].resp.body.data = <<>>

\* C20: with --list <uuid> a list command operates on <uuid> and sends no
\* load-lists request; without --list it sends exactly one load-lists request
\* and operates on the first list returned; when that response has no lists
\* it fails with 'no shopping lists found', a non-zero exit code and no
\* further request.
C20_ListSelection ==
    ListCommandRan =>
        IF argv[1].flags.list # Empty
        THEN /\ LoadListsCalls = {}
             /\ OperatesOn(argv[1].flags.list)
        ELSE /\ Cardinality(LoadListsCalls) = 1
             /\ \A i \in LoadListsCalls :
                   CallOK(calls[i]) =>
                       IF calls[i].resp.body.data # <<>>
                       THEN OperatesOn(calls[i].resp.body.data[1].listUuid)
                       ELSE /\ Wrote(stderr, NoListsFound)
                            /\ exit[1] # 0
                            /\ i = Len(calls)

\* --list given: complete sends MoveToRecentList for that list only.
C20_WitnessExplicit ==
    /\ ListCommandRan
    /\ argv[1].command = "done"
    /\ argv[1].flags.list = <<"list-7">>
    /\ Len(calls) = 1
    /\ calls[1].op = "MoveToRecentList"
    /\ calls[1].arg = <<"list-7">>
    /\ exit = <<0>>

\* --list absent, two lists returned: add-recipe batches onto the first.
C20_Witness ==
    /\ ListCommandRan
    /\ argv[1].command = "add-recipe"
    /\ argv[1].flags.list = Empty
    /\ Len(calls) = 3
    /\ calls[2].op = "LoadLists"
    /\ calls[2].resp = OK(<<Groceries, Party>>)
    /\ calls[3].op = "BatchUpdateItems"
    /\ calls[3].arg = <<"list-1">>
    /\ exit = <<0>>

\* --list absent, no lists returned: items fails after its load-lists request.
C20_WitnessNoLists ==
    /\ ListCommandRan
    /\ argv[1].command = "items"
    /\ argv[1].flags.list = Empty
    /\ calls = <<Call("LoadLists", Empty, OK(<<>>))>>
    /\ stderr = <<"Error: ", NoListsFound>>
    /\ exit = <<1>>

\* ---------------------------------------------------- properties of login

LoginRan ==
    /\ exit # <<>>
    /\ argv[1].command = "login"
    /\ ~argv[1].flags.help

\* The token of the token flow: the --token value, else what was typed.
GivenToken ==
    IF argv[1].flags.token # Empty THEN argv[1].flags.token
    ELSE calls[1].resp.text

\* isExpired of the specification: exp present, nonzero and below now (an
\* absent exp decodes to 0).
isExpired(exp, t) == exp # 0 /\ exp < t

\* The browser login or the prompt failed.
AcquisitionFailed ==
    \/ argv[1].flags.browser /\ calls[1].resp.err # Nil
    \/ /\ ~argv[1].flags.browser
       /\ argv[1].flags.token = Empty
       /\ calls[1].resp.err # NoErr

\* One of the token checks fails: no token, no JWT, no sub, expired.
TokenCheckFailed ==
    /\ ~argv[1].flags.browser
    /\ ~AcquisitionFailed
    /\ \/ GivenToken = Empty
       \/ decodeJWT(GivenToken).err # Nil
       \/ decodeJWT(GivenToken).claims.Sub = Empty
       \/ isExpired(decodeJWT(GivenToken).claims.Exp, today)

ValidationFailed ==
    \E i \in DOMAIN calls : calls[i].op = "GetUserAccount" /\ ~CallOK(calls[i])

\* saveConfig is called only after the account request made with the token it
\* saves has succeeded.
ValidatedBeforeSave ==
    \A i \in DOMAIN calls :
        calls[i].op = "saveConfig"
            => \E j \in 1..(i - 1) :
                  /\ calls[j].op = "GetUserAccount"
                  /\ calls[j].arg = calls[i].arg
                  /\ CallOK(calls[j])

\* C14: in both login flows saveConfig is called only after GetUserAccount
\* succeeded with the acquired token; if the acquisition, a token check
\* (format, sub present, not expired) or the validation call fails, Run
\* returns non-zero, reports on stderr and leaves the saved config unchanged.
C14_ValidateBeforePersist ==
    LoginRan =>
        /\ ValidatedBeforeSave
        /\ (AcquisitionFailed \/ TokenCheckFailed \/ ValidationFailed)
              => /\ exit[1] # 0
                 /\ stderr # <<>>
                 /\ cfg = cfg0

\* ------------------------------------------ properties of the saved config

\* C21: after config defaultList <uuid> has succeeded (the only way the saved
\* DefaultList becomes non-empty), a list command that runs without --list
\* and returns 0 has operated on list <uuid>.
C21_DefaultListUsed ==
    (/\ ListCommandRan
     /\ argv[1].flags.list = Empty
     /\ cfg0.DefaultList # Empty
     /\ exit = <<0>>)
        => OperatesOn(cfg0.DefaultList)

LoginSucceeded == LoginRan /\ exit = <<0>>

\* C27: a successful login leaves the settings servings, defaultList and
\* locale of the saved config as they were.
C27_LoginKeepsSettings ==
    LoginSucceeded
        => /\ cfg.Servings = cfg0.Servings
           /\ cfg.DefaultList = cfg0.DefaultList
           /\ cfg.Locale = cfg0.Locale

\* C28: after a login that returned 0 the saved config has a non-empty
\* AccessToken and a non-empty UserUUID, so that getBringClient accepts it.
C28_LoginLeavesCredentials ==
    LoginSucceeded
        => /\ cfg.AccessToken # Empty
           /\ cfg.UserUUID # Empty
           /\ getBringClient(cfg)

\* ===================================================== the API client alone

\* LoadTranslations reads the body whatever the status is, as LoadCatalog
\* does: decodeError, then json.Unmarshal into a map of strings.
LoadTranslations(resp) ==
    IF decodeError(resp.body) # NoErr
    THEN [err |-> <<"cannot ", "LoadTranslations", ": ">> \o decodeError(resp.body),
          data |-> <<>>]
    ELSE IF ~resp.body.json
    THEN [err |-> <<"cannot ", "LoadTranslations", ": ",
                    "unexpected end of JSON input">>,
          data |-> <<>>]
    ELSE [err |-> NoErr, data |-> resp.body.data]

\* The operations of the client that send one HTTP request.
Operations ==
    {"Login", "LoadLists", "GetItems", "GetItemsDetails", "GetUserAccount",
     "SaveItem", "SaveItemImage", "RemoveItem", "BatchUpdateItems",
     "RemoveItemImage", "MoveToRecentList", "SetListArticleLanguage",
     "GetActivity", "GetAllUsersFromList", "GetInspirations",
     "GetInspirationDetails", "GetInspirationFilters", "GetUserSettings",
     "LoadTranslations", "LoadCatalog", "GetPendingInvitations", "Notify"}

\* The bodies a server sends: data, nothing, and JSON objects with any of the
\* members error, message and error_description.
Bodies ==
    {DataBody(<<"data">>), EmptyBody}
    \cup {[ErrorBody(e, m) EXCEPT !.error_description = d] :
             e \in {Empty, <<"invalid_grant">>},
             m \in {Empty, <<"token expired">>},
             d \in {Empty, <<"grant is not valid">>}}

\* Status codes below and from 400.
Statuses == {200, 399, 401, 404, 500}

ClientInit ==
    /\ PipelineIdle
    /\ SessionIdle
    /\ JwtIdle
    /\ CliIdle
    /\ ScanIdle
    /\ operation \in Operations
    /\ response \in [status : Statuses, body : Bodies]
    /\ returned = <<>>

\* The operation sends its request, reads the response and returns.
Operate ==
    /\ returned = <<>>
    /\ returned' =
          <<CASE operation = "LoadCatalog" -> LoadCatalog(response)
              [] operation = "LoadTranslations" -> LoadTranslations(response)
              [] OTHER -> Request(operation, response)>>
    /\ UNCHANGED <<notClient, operation, response>>

ClientNext == Operate

ClientSpec == ClientInit /\ [][ClientNext]_vars

\* The text the claimed error carries: the body's message, else its
\* error_description, else its error; 'http <status>' without an error member.
ErrorText(resp) ==
    IF resp.body.json /\ resp.body.error # Empty
    THEN coalesce(<<resp.body.message, resp.body.error_description, resp.body.error>>)
    ELSE HTTPError(resp.status)

\* The error's own text: what follows the operation's "cannot ...: ".
Cause(err) ==
    IF Len(err) >= 3 /\ err[1] = "cannot " THEN SubSeq(err, 4, Len(err))
    ELSE IF Len(err) >= 1 /\ err[1] = "cannot get catalog: " THEN Tail(err)
    ELSE err

\* C22: every client operation returns an error when the status is 400 or
\* above and when the JSON body has a non-empty error member; its text is the
\* body's message, else its error_description, else its error, or
\* 'http <status>' when the body has no error member.
C22_ClientErrors ==
    (/\ returned # <<>>
     /\ \/ response.status >= 400
        \/ response.body.json /\ response.body.error # Empty)
        => /\ returned[1].err # NoErr
           /\ Cause(returned[1].err) = ErrorText(response)

\* ------------------------------------------ the storage scan, step by step

\* The scan script of extractAuthFromStorageFallback taken one loop
\* iteration at a time, on a storage drawn from the entries below, followed
\* by the return of extractAuthFromStorage on that storage.

\* A token whose separators are escaped, as it stands inside a doubly encoded
\* storage value: eyJ...\.eyJ...\.sig
EscapedToken ==
    <<Hdr, "\\", ".", "eyJzdWIiOiJpZC05In0", "\\", ".", "sig">>

ScanEntries ==
    {<<"accessToken", TokFull>>,
     <<"userUuid", <<"u-1">>>>,
     <<"jwt", TokFull>>,
     <<"esc", EscapedToken>>,
     <<"state", <<"{\"auth\":{\"access_token\":\"abc\"}}">>>>,
     <<"profile", <<"{\"user\":{\"uuid\":\"u-2\",\"name\":\"Ann\",\"email\":\"a@x\"}}">>>>,
     <<"extra", <<"{\"email\":\"late@x\",\"name\":\"Late\"}">>>>,
     <<"cfg", <<"{\"token\":123}">>>>,
     <<"prefs",
       <<"{\"token\":\"t-low\",\"access_token\":\"t-high\",\"uuid\":\"u-low\",\"user_uuid\":\"u-high\",\"userName\":\"N-low\",\"name\":\"N-high\",\"user\":{\"email\":\"u@x\"},\"email\":\"e@x\"}">>>>,
     <<"nested",
       <<"{\"auth\":{\"access_token\":\"\",\"accessToken\":\"t-nested\"},\"uuid\":\"\",\"user\":{\"userUuid\":\"u-nested\",\"userName\":\"N-nested\",\"email\":\"n@x\"},\"publicUserUuid\":\"p-8\"}">>>>}

MaxEntries == 3

\* The sequences of at most n storage entries with distinct keys.
RECURSIVE EntrySeqs(_)
EntrySeqs(n) ==
    IF n = 0
    THEN {<<>>}
    ELSE LET shorter == EntrySeqs(n - 1) IN
         shorter \cup
         {Append(q[1], q[2]) :
             q \in {x \in shorter \X ScanEntries :
                       /\ Len(x[1]) = n - 1
                       /\ \A i \in 1..Len(x[1]) : x[1][i][1] # x[2][1]}}

ScanStorages ==
    UNION {{[local |-> SubSeq(q, 1, k), session |-> SubSeq(q, k + 1, Len(q))] :
               k \in 0..Len(q)} :
           q \in EntrySeqs(MaxEntries)}

\* The entries in the order the two loops enumerate them.
Entries(store) == store.local \o store.session

\* Line 367: the access token or the user id is missing after phase 1.
NeedScan(store) ==
    LET data == CanonicalScript(store) IN
    Data(data, "accessToken") = Empty \/ Data(data, "userUuid") = Empty

ScanInit ==
    /\ PipelineIdle
    /\ SessionIdle
    /\ JwtIdle
    /\ CliIdle
    /\ ClientIdle
    /\ scanStore \in ScanStorages
    /\ scanIdx = 0
    /\ scanFound = ScanEmpty
    /\ scanOut = <<>>
    /\ extractOut = <<>>

\* One iteration of the loop body on the next entry.
ScanStep ==
    /\ NeedScan(scanStore)
    /\ scanOut = <<>>
    /\ extractOut = <<>>
    /\ scanIdx < Len(Entries(scanStore))
    /\ scanIdx' = scanIdx + 1
    /\ LET value == Entries(scanStore)[scanIdx + 1][2] IN
       IF value = Empty
       THEN UNCHANGED <<scanFound, scanOut>>
       ELSE LET jwt == JwtMatch(value)
                r1 == IF ~Truthy(scanFound.accessToken) /\ Truthy(jwt)
                      THEN [scanFound EXCEPT !.accessToken = jwt]
                      ELSE scanFound
                parsed == JSONParse(value)
            IN  IF ~parsed.ok
                THEN /\ scanFound' = r1
                     /\ UNCHANGED scanOut
                ELSE LET ts == trySet(r1, parsed.val) IN
                     /\ scanFound' = ts.result
                     /\ scanOut' = IF /\ ts.ret
                                      /\ Truthy(ts.result.accessToken)
                                      /\ Truthy(ts.result.userUuid)
                                   THEN <<ts.result>>
                                   ELSE <<>>
    /\ UNCHANGED <<scanStore, extractOut, notScan>>

\* The return after the loops.
ScanReturn ==
    /\ NeedScan(scanStore)
    /\ scanOut = <<>>
    /\ extractOut = <<>>
    /\ scanIdx = Len(Entries(scanStore))
    /\ scanOut' = <<scanFound>>
    /\ UNCHANGED <<scanStore, scanIdx, scanFound, extractOut, notScan>>

\* extractAuthFromStorage returns: after the scan when it was needed, without
\* it otherwise.
ExtractFromStorage ==
    /\ extractOut = <<>>
    /\ NeedScan(scanStore) => scanOut # <<>>
    /\ \E eval2 \in EvalOutcomes :
          /\ ~NeedScan(scanStore) => eval2 = "ok"
          /\ LET f == extractAuthFromStorage(scanStore, "ok", eval2) IN
             extractOut' = <<[eval2 |-> eval2, result |-> f.result, err |-> f.err]>>
    /\ UNCHANGED <<scanStore, scanIdx, scanFound, scanOut, notScan>>

ScanNext == ScanStep \/ ScanReturn \/ ExtractFromStorage

ScanSpec == ScanInit /\ [][ScanNext]_vars

\* The loops taken step by step return what the script returns as a whole.
ScanStepsAgree ==
    scanOut # <<>> => scanOut[1] = FallbackScript(scanStore)

\* ----------------------------------------------- properties of ScanSpec

\* The key of the script's result object behind each field of the result.
FieldOf ==
    [AccessToken |-> "accessToken", UserUUID |-> "userUuid",
     PublicUserUUID |-> "publicUserUuid", UserName |-> "userName",
     Email |-> "email"]

\* The fields as phase 1 (the canonical keys) leaves them.
Phase1(store) ==
    [f \in DOMAIN FieldOf |-> Data(CanonicalScript(store), FieldOf[f])]

\* What the scan found for a field: the string its script returned for it.
ScanValue(f) ==
    IF scanOut # <<>> THEN Data(scanOut[1], FieldOf[f]) ELSE Empty

ExtractReturned == extractOut # <<>> /\ extractOut[1].err = Nil

\* The condition of line 369 under which the fields of the scan are merged.
ScanMerged ==
    /\ NeedScan(scanStore)
    /\ scanOut # <<>>
    /\ extractOut[1].eval2 = "ok"
    /\ ~UnmarshalFails(scanOut[1])
    /\ (ScanValue("AccessToken") # Empty \/ ScanValue("UserUUID") # Empty)

\* C23 as stated: the scan runs only when phase 1 left accessToken or
\* userUuid empty; in the result of extractAuthFromStorage every field that
\* phase 1 set keeps its value, and every field phase 1 left empty has the
\* value the scan found for it, when the scan found one.
C23_ScanFillsEveryEmptyField ==
    /\ scanIdx > 0 => NeedScan(scanStore)
    /\ (ExtractReturned /\ extractOut[1].eval2 = "ok") =>
          \A f \in DOMAIN FieldOf :
             LET p == Phase1(scanStore)[f] IN
             /\ p # Empty => extractOut[1].result[f] = p
             /\ (p = Empty /\ ScanValue(f) # Empty) =>
                    extractOut[1].result[f] = ScanValue(f)

\* C23 amended: the scan runs only when phase 1 left accessToken or userUuid
\* empty; every field that phase 1 set keeps its value; a field phase 1 left
\* empty takes the scan's value when the scan returned without error and
\* found an accessToken or a userUuid, and otherwise nothing is taken from
\* the scan (userUuid may then still be filled from the token).
C23_ScanMergedWhenCredentialFound ==
    /\ scanIdx > 0 => NeedScan(scanStore)
    /\ ExtractReturned =>
          \A f \in DOMAIN FieldOf :
             LET p == Phase1(scanStore)[f]
                 r == extractOut[1].result[f]
             IN  IF p # Empty
                 THEN r = p
                 ELSE IF ScanMerged /\ ScanValue(f) # Empty
                 THEN r = ScanValue(f)
                 ELSE IF f = "UserUUID"
                 THEN LET sub == decodeJWT(extractOut[1].result.AccessToken).claims.Sub
                          parts == Split(sub, ":")
                      IN  r = parts[Len(parts)]
                 ELSE r = Empty

\* Phase 1 set one field and left another empty, the scan found a different
\* value for the first and a value for the second, and the result keeps the
\* first and takes the second.
C23_Witness ==
    /\ ExtractReturned
    /\ ScanMerged
    /\ \E f, g \in DOMAIN FieldOf :
          /\ Phase1(scanStore)[f] # Empty
          /\ ScanValue(f) # Empty
          /\ ScanValue(f) # Phase1(scanStore)[f]
          /\ extractOut[1].result[f] = Phase1(scanStore)[f]
          /\ Phase1(scanStore)[g] = Empty
          /\ ScanValue(g) # Empty
          /\ extractOut[1].result[g] = ScanValue(g)

\* The aliases of each field of the script's result, in priority order, as
\* paths into the parsed object.
Aliases ==
    [accessToken    |-> <<<<"access_token">>, <<"accessToken">>, <<"token">>,
                          <<"auth", "access_token">>, <<"auth", "accessToken">>>>,
     userUuid       |-> <<<<"userUuid">>, <<"user_uuid">>, <<"uuid">>,
                          <<"user", "uuid">>, <<"user", "userUuid">>>>,
     publicUserUuid |-> <<<<"publicUuid">>, <<"public_user_uuid">>,
                          <<"publicUserUuid">>>>,
     userName       |-> <<<<"name">>, <<"userName">>, <<"user", "name">>,
                          <<"user", "userName">>>>,
     email          |-> <<<<"email">>, <<"user", "email">>>>]

Lookup(obj, path) ==
    IF Len(path) = 1
    THEN Prop(obj, path[1])
    ELSE Prop(Prop(obj, path[1]), path[2])

\* The first non-empty alias of the object, undefined when there is none.
FirstAlias(obj, paths) ==
    IF \E i \in 1..Len(paths) : Truthy(Lookup(obj, paths[i]))
    THEN Lookup(obj, paths[CHOOSE i \in 1..Len(paths) :
                              /\ Truthy(Lookup(obj, paths[i]))
                              /\ \A j \in 1..(i - 1) : ~Truthy(Lookup(obj, paths[j]))])
    ELSE Undef

StateValue == <<"{\"auth\":{\"access_token\":\"abc\"}}">>

\* C24: when the scan examines a storage value that parses as a JSON object,
\* each field of its result that is still unset (accessToken: also not just
\* set from the JWT pattern in this value) takes the first non-empty alias
\* in the field's priority order, and stays unset when no alias is
\* non-empty; a field already set keeps its value.
C24_FirstAliasAdopted ==
    [][scanIdx' = scanIdx + 1 =>
          LET value == Entries(scanStore)[scanIdx'][2]
              parsed == JSONParse(value)
          IN  (parsed.ok /\ parsed.val.t = "o") =>
                 \A k \in DOMAIN Aliases :
                    LET first == FirstAlias(parsed.val, Aliases[k])
                        set == \/ Truthy(scanFound[k])
                               \/ k = "accessToken" /\ Truthy(JwtMatch(value))
                    IN  IF set
                        THEN Truthy(scanFound[k]) => scanFound'[k] = scanFound[k]
                        ELSE scanFound'[k] =
                                IF Truthy(first) THEN first ELSE scanFound[k]]_vars

\* The scan took accessToken 'abc' from {"auth":{"access_token":"abc"}} and
\* then, from an object with several aliases per field, the first of each
\* for the fields still unset.
C24_Witness ==
    /\ scanIdx = 2
    /\ Entries(scanStore)[1][2] = StateValue
    /\ Entries(scanStore)[2][1] = "prefs"
    /\ scanFound.accessToken = Str(<<"abc">>)
    /\ scanFound.userUuid = Str(<<"u-high">>)
    /\ scanFound.userName = Str(<<"N-high">>)
    /\ scanFound.email = Str(<<"e@x">>)

BothFound == Truthy(scanFound.accessToken) /\ Truthy(scanFound.userUuid)

\* C25: once the scan has found both accessToken and userUuid it stops: it
\* examines no further storage key and adopts no further field, whichever of
\* the two was found last and whether by the JWT pattern or by an alias.
C25_NoKeyExaminedAfterBothFound ==
    [][BothFound => (scanIdx' = scanIdx /\ scanFound' = scanFound)]_vars

\* A JWT-shaped substring: three base64url segments separated by dots, the
\* first beginning with eyJ.
JwtShapedAt(value, i) ==
    /\ i + 4 <= Len(value)
    /\ value[i] \in EyJAtoms
    /\ value[i + 1] = "."
    /\ value[i + 2] \in B64Atoms
    /\ value[i + 3] = "."
    /\ value[i + 4] \in B64Atoms

FirstJwtShaped(value) ==
    LET i == CHOOSE k \in 1..Len(value) :
                 JwtShapedAt(value, k) /\ \A j \in 1..(k - 1) : ~JwtShapedAt(value, j)
    IN  SubSeq(value, i, i + 4)

\* C26: when the scan examines a storage value that contains a JWT-shaped
\* substring while accessToken is still unset, the first such substring
\* becomes accessToken, whether or not the value is valid JSON.
C26_JwtSubstringAdopted ==
    [][(scanIdx' = scanIdx + 1 /\ ~Truthy(scanFound.accessToken)) =>
          LET value == Entries(scanStore)[scanIdx'][2] IN
          (\E i \in 1..Len(value) : JwtShapedAt(value, i)) =>
             scanFound'.accessToken = Str(FirstJwtShaped(value))]_vars

\* ------------------------------------------- the page whose storage is read

\* C29: on the storage path, after a poll of waitForLogin has detected the
\* login, the page findBringAppPage chooses is on web.getbring.com and its
\* URL does not contain /login, whatever happened to the open pages between
\* that poll and the choice.
C29_StorageReadFromAppPage ==
    (authPage # <<>> /\ polled.found # <<>>) => AppPage(authPage[1])

\* ------------------------------------------- the payload in the channel

\* C30: a payload in authResponseCh stays there until waitForAuthResponse
\* reads it, through the detection of the login and whatever the listener
\* does meanwhile; waitForAuthResponse then returns that payload with
\* ok = true, its timer never fires while the payload is there, and the
\* pipeline returns the credential finalizeAuthResult builds from it.
C30_PayloadRetainedUntilRead ==
    [][ch # <<>> =>
          IF recv' # recv
          THEN /\ pc = "waitAuth"
               /\ recv' = <<[payload |-> Head(ch), ok |-> TRUE]>>
               /\ ret' = <<finalizeAuthResult(FromPayload(Head(ch)))>>
          ELSE /\ ch' # <<>>
               /\ Head(ch') = Head(ch)
               /\ pc = "waitAuth" => pc' = "waitAuth"]_vars

\* The pipeline returned the credential built from the payload that
\* waitForAuthResponse took from the channel.
C30_Witness ==
    /\ Succeeded
    /\ Delivered
    /\ ch = <<>>
    /\ ret[1].result.AccessToken = recv[1].payload.AccessToken
    /\ ret[1].result.UserUUID = recv[1].payload.UUID

====
